---------------------------- MODULE Spec2Model ----------------------------
(***************************************************************************)
(* A model of the chat client of SirAgus/IA_personal.                      *)
(*                                                                         *)
(*   Spec        the turn controller of src/src/App.tsx (sendMessage and   *)
(*               processChatInteraction, the version with the tool loop),  *)
(*               over the conversation store it imports (createThread and  *)
(*               addMessage of src/unnamed/part_004).  A response stream   *)
(*               is taken one decoded frame (delta) at a time.             *)
(*   SpecReader  the two stream readers at the level of bytes and chunks:  *)
(*               the read loop of processChatInteraction and               *)
(*               streamGroqChat of src/src/services/groq.ts.               *)
(***************************************************************************)
EXTENDS Integers, Sequences, FiniteSets, TLC

(***************************************************************************)
(* Bounds of the model.                                                    *)
(***************************************************************************)
MaxTurns == 1          \* user submissions in one behaviour
MaxOtherCalls == 1     \* responses in one behaviour that hold tool calls and are not
                       \* the plain call of get_current_date
MaxCalls == 2          \* tool calls opened in one response stream
MaxPieces == 2         \* argument fragments of one tool call
MaxLines == 2          \* lines of one event stream given to a stream reader
MaxThreads == 2        \* threads created in one behaviour of the store
MaxAgents == 2         \* agents created in one behaviour of the store
MaxRows == 1           \* messages appended in one behaviour of the store
MaxAppends == 52       \* messages appended to the thread whose history is listed
MaxClock == 2          \* the last reading of the clock
MaxSends == 2          \* sendMessage calls followed await by await in one behaviour

(***************************************************************************)
(* Program constants.                                                      *)
(***************************************************************************)
MAX_ITERATIONS == 5
ContextWindow == 10

\* JavaScript's undefined / null where a number is expected.
Undefined == -1
\* null thread id (every test of it in the code is a truthiness test)
NoThread == 0
\* selectedAgent?.id of no agent, stored as agentId || null
NoAgent == 0
\* the default limit of getThreadMessages
MessagesLimit == 50

Inputs == {"hola", " "}
ReasoningLevels == {"medium", "low"}
ToolNames == {"get_current_date", "web_search", "calc"}
ErrorText == "Error al procesar la solicitud."
SystemText == "GLOBAL_SYSTEM_PROMPT"

VARIABLES
  \* React state of App
  messages, isLoading, currentThreadId, reasoningLevel,
  \* the conversation store (tables threads and messages, AUTOINCREMENT counters)
  threads, dbMessages, lastThreadId, lastMessageId,
  \* the running sendMessage / processChatInteraction call
  pc, threadId, iteration, msgs, acc, toolOutputs, toolIdx,
  \* the environment and what it observed
  now, requests, bodies, respOk, signal, turnEnd, turns, othersLeft, body, callsOpened,
  \* the byte-level readers
  reader, stream, pos, pending, buffer, delivered, readerErr, readerDone, cuts,
  \* one call of executeTool: its name, its arguments, the search service, its outcome
  toolName, toolArgs, serp, toolResult,
  \* the selected agent of App, and the sendMessage calls made so far, one record each
  selectedAgent, sends,
  \* the store as its callers use it: which implementation runs, the agents table,
  \* the last call made and the last write of every thread
  store, agents, lastAgentId, op, writes,
  \* what App renders: the grouped messages and how often they were computed
  groupedMessages, renders,
  \* the database of the store module: the instance the module holds, the promise
  \* of it, every instance made, the snapshot under the storage key, the saves in
  \* flight and the store calls running
  dbInstance, dbPromise, instances, durable, saves, storeCalls

uiVars == <<messages, isLoading, currentThreadId, reasoningLevel>>
storeVars == <<threads, dbMessages, lastThreadId, lastMessageId>>
turnVars == <<pc, threadId, iteration, msgs, acc, toolOutputs, toolIdx>>
envVars == <<now, requests, bodies, respOk, signal, turnEnd, turns, othersLeft, body,
            callsOpened>>
readerVars == <<reader, stream, pos, pending, buffer, delivered, readerErr, readerDone,
               cuts>>
toolVars == <<toolName, toolArgs, serp, toolResult>>
callVars == <<selectedAgent, sends>>
apiVars == <<store, agents, lastAgentId, op, writes>>
viewVars == <<groupedMessages, renders>>
instVars == <<dbInstance, dbPromise, instances, durable, saves, storeCalls>>
\* what the turn controller never touches
sideVars == <<readerVars, toolVars, callVars, apiVars, viewVars, instVars>>
\* what the stream readers never touch
offReaderVars == <<uiVars, storeVars, turnVars, envVars, toolVars, callVars, apiVars,
                   viewVars, instVars>>
vars == <<uiVars, storeVars, turnVars, envVars, readerVars, toolVars, callVars, apiVars,
          viewVars, instVars>>

(***************************************************************************)
(* Helpers on sequences.                                                   *)
(***************************************************************************)
Last(s) == s[Len(s)]

\* Array.prototype.slice(-n)
SliceLast(s, n) == IF Len(s) <= n THEN s ELSE SubSeq(s, Len(s) - n + 1, Len(s))

(***************************************************************************)
(* The conversation store.                                                 *)
(***************************************************************************)
\* metrics as the code passes it: absent, or { reasoningDurationMs: d }
NoMetrics == [present |-> FALSE, reasoningDurationMs |-> Undefined]
Metrics(d) == [present |-> TRUE, reasoningDurationMs |-> d]

\* the row addMessage inserts: reasoning_content || null turns "" into null; the
\* table has no column for tool_calls or tool_call_id
Row(id, msg) ==
  [id |-> id, thread_id |-> msg.thread_id, role |-> msg.role, content |-> msg.content,
   reasoning_content |-> IF msg.reasoning_content \in {"", "<undefined>"}
                         THEN "<null>" ELSE msg.reasoning_content,
   metrics |-> msg.metrics]

DBMessage(tid, role, content, reasoning, metrics) ==
  [thread_id |-> tid, role |-> role, content |-> content,
   reasoning_content |-> reasoning, metrics |-> metrics]

\* createThread(title, agentId): the row INSERT INTO threads adds under the next id
createThread(ths, id, title, agentId, t) ==
  [i \in DOMAIN ths \cup {id} |->
     IF i = id THEN [title |-> title, agent_id |-> agentId, updated_at |-> t]
     ELSE ths[i]]

\* UPDATE threads SET updated_at = CURRENT_TIMESTAMP WHERE id = ?
TouchThread(ths, tid, t) ==
  IF tid \in DOMAIN ths THEN [ths EXCEPT ![tid].updated_at = t] ELSE ths

\* addMessage(msg): INSERT INTO messages, then the UPDATE of the thread
addMessage(msg) ==
  /\ dbMessages' = Append(dbMessages, Row(lastMessageId + 1, msg))
  /\ lastMessageId' = lastMessageId + 1
  /\ threads' = TouchThread(threads, msg.thread_id, now)

(***************************************************************************)
(* Messages of the visible history and of the working list.                *)
(***************************************************************************)
UserMessage(text) ==
  [role |-> "user", content |-> text, reasoning_content |-> "<undefined>",
   metrics |-> NoMetrics]
Placeholder ==
  [role |-> "assistant", content |-> "", reasoning_content |-> "", metrics |-> NoMetrics]
ErrorMessage ==
  [role |-> "assistant", content |-> ErrorText, reasoning_content |-> "<undefined>",
   metrics |-> NoMetrics]

\* what msgs.map builds for the request body out of one entry of msgs
PayloadEntry(role, content, tool_calls, tool_call_id) ==
  [role |-> role, content |-> content, tool_calls |-> tool_calls,
   tool_call_id |-> tool_call_id]
FromVisible(m) == PayloadEntry(m.role, m.content, <<>>, 0)
SystemMessage == PayloadEntry("system", SystemText, <<>>, 0)

\* a stored message as loadThreadData maps it into the visible history, then as
\* msgs.map sends it: what a later request holds of a row of the store
FromStored(row) == PayloadEntry(row.role, row.content, <<>>, 0)

\* a working list that starts from the whole history; C29_RequestWindow tells it apart
ContextMessages_Mutant(allMessages) ==
  [i \in 1..Len(allMessages) |-> FromVisible(allMessages[i])]

\* const contextMessages = allMessages.slice(-10); let msgs = [...contextMessages]
ContextMessages(allMessages) ==
  LET w == SliceLast(allMessages, ContextWindow)
  IN  [i \in 1..Len(w) |-> FromVisible(w[i])]

\* messagesPayload = [...initialSystemMessages, ...msgs.map(...)]
MessagesPayload(m) == <<SystemMessage>> \o m

(***************************************************************************)
(* Frames.  A frame is the delta of one data: line,                        *)
(*   { reasoning_content?, content?, tool_calls?: [{ id?, function? }] }   *)
(* with "" for an absent text, 0 for an absent id and <<>> for absent      *)
(* tool_calls.                                                             *)
(***************************************************************************)
Delta(reasoning, content, tool_calls) ==
  [reasoning_content |-> reasoning, content |-> content, tool_calls |-> tool_calls]
ToolCallFragment(id, hasFunction, name, arguments) ==
  [id |-> id, hasFunction |-> hasFunction, name |-> name, arguments |-> arguments]

ArgPiece == "{}"

OpensCall(delta) == delta.tool_calls # <<>> /\ delta.tool_calls[1].id # 0

\* the frames of one tool call: the fragment that opens it (with the id, the name
\* and, as text, the arguments the server puts beside them), then n argument fragments
CallFrames(id, name, text, n) ==
  <<Delta("", "", <<ToolCallFragment(id, TRUE, name, text)>>)>>
  \o [i \in 1..n |-> Delta("", "", <<ToolCallFragment(0, TRUE, "", ArgPiece)>>)]

\* reasoning and answer fragments a response may begin with
Texts ==
  {<<>>, <<Delta("r", "", <<>>)>>, <<Delta("", "a", <<>>)>>,
   <<Delta("r", "", <<>>), Delta("", "a", <<>>)>>}

RECURSIVE CallSeqs(_, _)
CallSeqs(id, k) ==
  IF k = 0 THEN {<<>>}
  ELSE {<<>>} \cup
       {CallFrames(id, name, text, n) \o rest :
          name \in ToolNames, text \in {"", ArgPiece}, n \in 0..MaxPieces,
          rest \in CallSeqs(id + 1, k - 1)}

\* the response bodies a server may send, as the frames of their data: lines; the
\* ids of its tool calls are fresh (id is the next one)
Streams(id) == {t \o c : t \in Texts, c \in CallSeqs(id, MaxCalls)}

\* what a body takes of MaxOtherCalls: a body with no tool call, and the body that
\* is one call of get_current_date with one argument fragment after the opening
\* one, are free
BodyCost(b) ==
  IF \/ \A i \in 1..Len(b) : b[i].tool_calls = <<>>
     \/ /\ Len(b) = 2
        /\ OpensCall(b[1]) /\ b[1].tool_calls[1].name = "get_current_date"
        /\ b[1].tool_calls[1].arguments = ""
        /\ ~OpensCall(b[2]) /\ b[2].tool_calls # <<>>
  THEN 0 ELSE 1

\* Streams tabulated: the bodies within what is left of MaxOtherCalls, their tool
\* calls numbered from 1
StreamTable == [left \in 0..MaxOtherCalls |-> {b \in Streams(1) : BodyCost(b) <= left}]

\* the body b with the ids of its tool calls moved up by n
WithIds(b, n) ==
  [k \in 1..Len(b) |->
     IF OpensCall(b[k]) THEN [b[k] EXCEPT !.tool_calls[1].id = @ + n] ELSE b[k]]

(***************************************************************************)
(* The delta accumulator: the body of the try block of the read loop.      *)
(***************************************************************************)
InitAcc ==
  [assistantContent |-> "", assistantReasoning |-> "", toolCallsArgs |-> <<>>,
   currentToolCallIndex |-> -1,
   reasoningStartTime |-> Undefined, reasoningEndTime |-> Undefined]

\* delta.reasoning_content && reasoningLevel !== 'instant' && reasoningLevel !== 'low'
TakesReasoning(delta, level) ==
  delta.reasoning_content # "" /\ level \notin {"instant", "low"}

AccReasoning(a, delta, level, t) ==
  IF TakesReasoning(delta, level)
  THEN [a EXCEPT !.reasoningStartTime = IF @ = Undefined THEN t ELSE @,
                 !.assistantReasoning = @ \o delta.reasoning_content]
  ELSE a

\* reasoningStartTime !== null && reasoningEndTime === null
ReasoningOpen(a) == a.reasoningStartTime # Undefined /\ a.reasoningEndTime = Undefined

AccContent(a, delta, t) ==
  IF delta.content # ""
  THEN [a EXCEPT !.reasoningEndTime = IF ReasoningOpen(a) THEN t ELSE @,
                 !.assistantContent = @ \o delta.content]
  ELSE a

\* an accumulator that appends argument text to the first descriptor, not to the
\* one opened last; C30_ToolCallAccumulation tells it apart
AccToolCalls_Mutant(a, delta) ==
  IF delta.tool_calls = <<>> THEN a
  ELSE LET tc == delta.tool_calls[1] IN
       IF tc.id # 0
       THEN IF tc.hasFunction
            THEN [a EXCEPT !.toolCallsArgs =
                               Append(@, [id |-> tc.id, name |-> tc.name, arguments |-> ""]),
                           !.currentToolCallIndex = Len(a.toolCallsArgs)]
            ELSE a
       ELSE IF a.currentToolCallIndex >= 0 /\ tc.hasFunction /\ tc.arguments # ""
            THEN [a EXCEPT !.toolCallsArgs[1].arguments = @ \o tc.arguments]
            ELSE a

\* only delta.tool_calls[0] is looked at; tc.function.name of a fragment with an id
\* and no function throws, and the catch block leaves what was done before it
AccToolCalls(a, delta) ==
  IF delta.tool_calls = <<>> THEN a
  ELSE LET tc == delta.tool_calls[1] IN
       IF tc.id # 0
       THEN IF tc.hasFunction
            THEN [a EXCEPT !.toolCallsArgs =
                               Append(@, [id |-> tc.id, name |-> tc.name, arguments |-> ""]),
                           !.currentToolCallIndex = Len(a.toolCallsArgs)]
            ELSE a
       ELSE IF a.currentToolCallIndex >= 0 /\ tc.hasFunction /\ tc.arguments # ""
            THEN [a EXCEPT !.toolCallsArgs[a.currentToolCallIndex + 1].arguments =
                               @ \o tc.arguments]
            ELSE a

Accumulate(a, delta, level, t) ==
  AccToolCalls(AccContent(AccReasoning(a, delta, level, t), delta, t), delta)

\* reasoningEndTime && reasoningStartTime ? reasoningEndTime - reasoningStartTime : undefined
ReasoningDuration(a) ==
  IF a.reasoningEndTime # Undefined /\ a.reasoningStartTime # Undefined
  THEN a.reasoningEndTime - a.reasoningStartTime
  ELSE Undefined

\* the setMessages updaters of one frame, folded: each changes the last entry of the
\* visible history, and only if that entry is an assistant message
ShowDelta(ms, a, delta, level, t) ==
  IF ms = <<>> \/ Last(ms).role # "assistant" THEN ms
  ELSE LET a1 == AccReasoning(a, delta, level, t)
           a2 == AccContent(a1, delta, t)
       IN  [ms EXCEPT ![Len(ms)] =
             [@ EXCEPT !.reasoning_content =
                           IF TakesReasoning(delta, level) THEN a1.assistantReasoning ELSE @,
                       !.metrics =
                           IF delta.content # "" /\ ReasoningOpen(a1)
                           THEN Metrics(a2.reasoningEndTime - a2.reasoningStartTime) ELSE @,
                       !.content = IF delta.content # "" THEN a2.assistantContent ELSE @]]

\* after the read loop: reasoning that no answer fragment closed is closed now
CloseReasoning(a, t) ==
  IF ReasoningOpen(a) THEN [a EXCEPT !.reasoningEndTime = t] ELSE a

ShowClose(ms, a, t) ==
  IF ~ReasoningOpen(a) \/ ms = <<>> \/ Last(ms).role # "assistant" THEN ms
  ELSE [ms EXCEPT ![Len(ms)] =
         [@ EXCEPT !.metrics = Metrics(t - a.reasoningStartTime),
                   !.content = a.assistantContent]]

(***************************************************************************)
(* The tool dispatcher (src/src/services/tools.ts) and JSON.parse of the   *)
(* accumulated argument text.                                              *)
(***************************************************************************)
\* JSON.parse(toolCall.function.arguments) returns only for a JSON text
JSONParses(text) == text \in {"{}"}

DateText == "lunes, 2 de noviembre de 2026, 21:30"
SearchResults == {"Resultados de busqueda:", "Error al buscar en web: SerpAPI Error (500)"}

\* the strings executeTool(name, args) may resolve to
executeTool(name) ==
  IF name = "get_current_date" THEN {DateText}
  ELSE IF name = "web_search" THEN SearchResults
  ELSE {"Herramienta " \o name \o " no implementada."}

(***************************************************************************)
(* executeTool step by step: what a call resolves to, or rejects with,     *)
(* for every name, every argument value and every answer of the search     *)
(* service.                                                                *)
(***************************************************************************)
\* the values JSON.parse hands over as args: null, an object without query, one with
NullArgs == "null"
ToolArguments == {NullArgs, "{}", "{\"query\":\"tla\"}"}

\* args.query as the template literals print it
QueryOf(args) == IF args = "{}" THEN "undefined" ELSE "tla"

\* the environment of web_search: whether an API key is configured, and what the
\* proxy answers
Fetches == {"rejects", "status 500", "not JSON", "answer box", "organic", "nothing"}
SerpEnvs == [apiKey : BOOLEAN, fetch : Fetches]

\* how an async function settles
Resolved(text) == [settled |-> "resolved", value |-> text]
Rejected(text) == [settled |-> "rejected", value |-> text]
NotCalled == [settled |-> "pending", value |-> ""]

\* a catch clause that lets the error out; C11_NeverThrows tells it apart
SearchCatch_Mutant(message) == Rejected(message)

\* catch (e): the error becomes the text of the result
SearchCatch(message) == Resolved("Error al buscar en web: " \o message)

\* the try block of web_search
webSearch(args, env) ==
  IF ~env.apiKey
  THEN Resolved("Error: No se ha configurado la API Key de SerpAPI (SERPAPI_KEY).")
  ELSE IF args = NullArgs
  THEN SearchCatch("Cannot read properties of null (reading 'query')")
  ELSE IF env.fetch = "rejects" THEN SearchCatch("Failed to fetch")
  ELSE IF env.fetch = "status 500" THEN SearchCatch("SerpAPI Error (500)")
  ELSE IF env.fetch = "not JSON" THEN SearchCatch("Unexpected token < in JSON")
  ELSE IF env.fetch = "answer box" THEN Resolved("Respuesta Directa: 42")
  ELSE IF env.fetch = "organic" THEN Resolved("Resultados de busqueda:")
  ELSE Resolved("No se encontraron resultados relevantes en Google para \""
                \o QueryOf(args) \o "\".")

\* executeTool(name, args) with the search service in state env
executeToolCall(name, args, env) ==
  IF name = "get_current_date" THEN Resolved(DateText)
  ELSE IF name = "web_search" THEN webSearch(args, env)
  ELSE Resolved("Herramienta " \o name \o " no implementada.")

\* a caller awaits executeTool(toolName, toolArgs)
CallTool ==
  /\ toolResult = NotCalled
  /\ toolResult' = executeToolCall(toolName, toolArgs, serp)
  /\ UNCHANGED <<toolName, toolArgs, serp>>
  /\ UNCHANGED <<uiVars, storeVars, turnVars, envVars, readerVars, callVars, apiVars, viewVars, instVars>>

(***************************************************************************)
(* The turn controller: sendMessage and processChatInteraction.            *)
(***************************************************************************)
\* !input.trim()
\* the words slice(0, 5) keeps and the length above which a title is cut
TitleWords == 5
TitleLimit == 30

\* String.prototype.trim on a text whose only white space is the space
RECURSIVE TrimLeft(_)
TrimLeft(s) ==
  IF Len(s) > 0 /\ SubSeq(s, 1, 1) = " " THEN TrimLeft(SubSeq(s, 2, Len(s))) ELSE s
RECURSIVE TrimRight(_)
TrimRight(s) ==
  IF Len(s) > 0 /\ SubSeq(s, Len(s), Len(s)) = " "
  THEN TrimRight(SubSeq(s, 1, Len(s) - 1)) ELSE s
TrimText(s) == TrimRight(TrimLeft(s))

\* split(' '): the pieces between single spaces, empty ones included
RECURSIVE SplitText(_)
SplitText(s) ==
  LET spaces == {i \in 1..Len(s) : SubSeq(s, i, i) = " "} IN
  IF spaces = {} THEN <<s>>
  ELSE LET i == CHOOSE k \in spaces : \A j \in spaces : k <= j
       IN  <<SubSeq(s, 1, i - 1)>> \o SplitText(SubSeq(s, i + 1, Len(s)))

\* slice(0, n)
SliceFirst(ws, n) == IF Len(ws) <= n THEN ws ELSE SubSeq(ws, 1, n)

\* join(sep)
RECURSIVE Join(_, _)
Join(ws, sep) ==
  IF ws = <<>> THEN ""
  ELSE IF Len(ws) = 1 THEN ws[1]
  ELSE ws[1] \o sep \o Join(Tail(ws), sep)

\* !input.trim()
IsBlank(input) == TrimText(input) = ""

\* a title cut at TitleLimit characters with no marker after the cut;
\* C27_TitleOfNewThread tells it apart
ThreadTitle_Mutant(input) ==
  LET firstWords == Join(SliceFirst(SplitText(TrimText(input)), TitleWords), " ")
  IN  IF Len(firstWords) > TitleLimit THEN SubSeq(firstWords, 1, TitleLimit)
      ELSE firstWords

\* a title of the first four words; C28_TripTitleIsFiveWords tells it apart
ThreadTitleOfFour_Mutant(input) ==
  LET firstWords == Join(SliceFirst(SplitText(TrimText(input)), TitleWords - 1), " ")
  IN  IF Len(firstWords) > TitleLimit THEN SubSeq(firstWords, 1, TitleLimit) \o "..."
      ELSE firstWords

\* firstWords = input.trim().split(' ').slice(0, 5).join(' ');
\* title = firstWords.length > 30 ? firstWords.substring(0, 30) + '...' : firstWords;
\* createThread(title || 'Nuevo Chat', ...)
ThreadTitle(input) ==
  LET firstWords == Join(SliceFirst(SplitText(TrimText(input)), TitleWords), " ")
      title == IF Len(firstWords) > TitleLimit
               THEN SubSeq(firstWords, 1, TitleLimit) \o "..."
               ELSE firstWords
  IN  IF title = "" THEN "Nuevo Chat" ELSE title

\* a loop that lets one more iteration in; C1_AtMostFiveRequests tells it apart
LoopContinues_Mutant(i) == i <= MAX_ITERATIONS

\* while (iteration < MAX_ITERATIONS)
LoopContinues(i) == i < MAX_ITERATIONS

\* the catch and finally blocks of sendMessage, reached by anything thrown in
\* processChatInteraction
Throw(what) ==
  /\ messages' = Append(messages, ErrorMessage)
  /\ isLoading' = FALSE
  /\ pc' = "idle"
  /\ signal' = "rejected"
  /\ turnEnd' = what

\* processChatInteraction returns: the finally block of sendMessage
Return(how) ==
  /\ isLoading' = FALSE
  /\ pc' = "idle"
  /\ signal' = "resolved"
  /\ turnEnd' = how

\* sendMessage up to the call of processChatInteraction
Submit(input) ==
  /\ pc = "idle"
  /\ turns < MaxTurns
  /\ IF IsBlank(input) \/ isLoading
     THEN UNCHANGED vars
     ELSE LET fresh == currentThreadId = NoThread
              targetThreadId == IF fresh THEN lastThreadId + 1 ELSE currentThreadId
              created == IF fresh
                         THEN createThread(threads, targetThreadId, ThreadTitle(input),
                                           NoAgent, now)
                         ELSE threads
              newMessages == Append(messages, UserMessage(input))
          IN  /\ lastThreadId' = IF fresh THEN targetThreadId ELSE lastThreadId
              /\ currentThreadId' = targetThreadId
              /\ messages' = newMessages
              /\ dbMessages' = Append(dbMessages,
                   Row(lastMessageId + 1,
                       DBMessage(targetThreadId, "user", input, "<undefined>", NoMetrics)))
              /\ lastMessageId' = lastMessageId + 1
              /\ threads' = TouchThread(created, targetThreadId, now)
              /\ isLoading' = TRUE
              /\ threadId' = targetThreadId
              /\ iteration' = 0
              /\ msgs' = ContextMessages(newMessages)
              /\ acc' = InitAcc
              /\ toolOutputs' = <<>>
              /\ toolIdx' = 0
              /\ pc' = "loop"
              /\ now' = now + 1
              /\ requests' = <<>>
              /\ bodies' = <<>>
              /\ respOk' = TRUE
              /\ signal' = "pending"
              /\ turnEnd' = "running"
              /\ turns' = turns + 1
              /\ UNCHANGED <<reasoningLevel, othersLeft, body, callsOpened>>
              /\ UNCHANGED sideVars

\* the head of the loop body: the placeholder, the payload and the fetch
IssueRequest ==
  /\ pc = "loop"
  /\ LoopContinues(iteration)
  /\ iteration' = iteration + 1
  /\ messages' = Append(messages, Placeholder)
  /\ requests' = Append(requests, MessagesPayload(msgs))
  /\ pc' = "fetching"
  /\ now' = now + 1
  /\ UNCHANGED <<isLoading, currentThreadId, reasoningLevel>>
  /\ UNCHANGED storeVars
  /\ UNCHANGED <<threadId, msgs, acc, toolOutputs, toolIdx>>
  /\ UNCHANGED <<bodies, respOk, signal, turnEnd, turns, othersLeft, body, callsOpened>>
  /\ UNCHANGED sideVars

\* the loop condition fails: the function ends without a return value
BudgetExhausted ==
  /\ pc = "loop"
  /\ ~LoopContinues(iteration)
  /\ Return("exhausted")
  /\ UNCHANGED <<messages, currentThreadId, reasoningLevel>>
  /\ UNCHANGED storeVars
  /\ UNCHANGED <<threadId, iteration, msgs, acc, toolOutputs, toolIdx>>
  /\ UNCHANGED <<now, requests, bodies, respOk, turns, othersLeft, body, callsOpened>>
  /\ UNCHANGED sideVars

\* await fetch(...) rejects (no connection)
FetchRejects ==
  /\ pc = "fetching"
  /\ Throw("fetch rejected")
  /\ UNCHANGED <<currentThreadId, reasoningLevel>>
  /\ UNCHANGED storeVars
  /\ UNCHANGED <<threadId, iteration, msgs, acc, toolOutputs, toolIdx>>
  /\ UNCHANGED <<now, requests, bodies, respOk, turns, othersLeft, body, callsOpened>>
  /\ UNCHANGED sideVars

\* if (!response.body) throw new Error('No response body')
ResponseNoBody ==
  /\ pc = "fetching"
  /\ Throw("no response body")
  /\ respOk' \in BOOLEAN
  /\ UNCHANGED <<currentThreadId, reasoningLevel>>
  /\ UNCHANGED storeVars
  /\ UNCHANGED <<threadId, iteration, msgs, acc, toolOutputs, toolIdx>>
  /\ UNCHANGED <<now, requests, bodies, turns, othersLeft, body, callsOpened>>
  /\ UNCHANGED sideVars

\* a response with a body, of a success status or not: response.ok is never read.
\* The body of an error response holds no data: line.
ResponseBody(ok, b) ==
  /\ pc = "fetching"
  /\ ok \/ b = <<>>
  /\ BodyCost(b) <= othersLeft
  /\ othersLeft' = othersLeft - BodyCost(b)
  /\ body' = b
  /\ respOk' = ok
  /\ acc' = InitAcc
  /\ pc' = "streaming"
  /\ now' = now + 1
  /\ UNCHANGED uiVars
  /\ UNCHANGED storeVars
  /\ UNCHANGED <<threadId, iteration, msgs, toolOutputs, toolIdx>>
  /\ UNCHANGED <<requests, signal, turnEnd, turns, callsOpened>>
  /\ bodies' = Append(bodies, b)
  /\ UNCHANGED sideVars

\* reader.read() hands over the next frame of the body
ReadFrame ==
  /\ pc = "streaming"
  /\ body # <<>>
  /\ LET delta == Head(body) IN
       /\ acc' = Accumulate(acc, delta, reasoningLevel, now)
       /\ messages' = ShowDelta(messages, acc, delta, reasoningLevel, now)
       /\ callsOpened' = IF OpensCall(delta) THEN callsOpened + 1 ELSE callsOpened
  /\ body' = Tail(body)
  /\ now' = now + 1
  /\ UNCHANGED <<isLoading, currentThreadId, reasoningLevel>>
  /\ UNCHANGED storeVars
  /\ UNCHANGED <<pc, threadId, iteration, msgs, toolOutputs, toolIdx>>
  /\ UNCHANGED <<requests, bodies, respOk, signal, turnEnd, turns, othersLeft>>
  /\ UNCHANGED sideVars

\* reader.read() rejects: the connection is lost before the body has ended
ReadRejects ==
  /\ pc = "streaming"
  /\ Throw("read rejected")
  /\ UNCHANGED <<currentThreadId, reasoningLevel>>
  /\ UNCHANGED storeVars
  /\ UNCHANGED <<threadId, iteration, msgs, acc, toolOutputs, toolIdx>>
  /\ UNCHANGED <<now, requests, bodies, respOk, turns, othersLeft, body, callsOpened>>
  /\ UNCHANGED sideVars

\* an assistant message stored without its reasoning text; C6_FinalAssistantStored
\* tells it apart
AssistantRow_Mutant(a) ==
  DBMessage(threadId, "assistant", a.assistantContent, "", Metrics(ReasoningDuration(a)))

\* an assistant message stored under the thread on screen when the stream ends
\* instead of the thread of the submission; C38_RowsGoToSubmittedThread tells it
\* apart
AssistantRowOnScreen_Mutant(a) ==
  DBMessage(currentThreadId, "assistant", a.assistantContent, a.assistantReasoning,
            Metrics(ReasoningDuration(a)))

\* the argument of addMessage for the assistant message of an iteration
AssistantRow(a) ==
  DBMessage(threadId, "assistant", a.assistantContent, a.assistantReasoning,
            Metrics(ReasoningDuration(a)))

\* the stream ends with tool calls accumulated: the assistant message is stored and
\* pushed on msgs, and the for loop over toolCallsArgs starts
StreamEndsWithTools ==
  /\ pc = "streaming"
  /\ body = <<>>
  /\ LET a == CloseReasoning(acc, now) IN
       /\ a.toolCallsArgs # <<>>
       /\ acc' = a
       /\ messages' = ShowClose(messages, acc, now)
       /\ addMessage(AssistantRow(a))
       /\ msgs' = Append(msgs, PayloadEntry("assistant", a.assistantContent,
                                            a.toolCallsArgs, 0))
  /\ toolOutputs' = <<>>
  /\ toolIdx' = 1
  /\ pc' = "tools"
  /\ now' = now + 1
  /\ UNCHANGED <<isLoading, currentThreadId, reasoningLevel>>
  /\ UNCHANGED <<lastThreadId>>
  /\ UNCHANGED <<threadId, iteration>>
  /\ UNCHANGED <<requests, bodies, respOk, signal, turnEnd, turns, othersLeft, body,
                 callsOpened>>
  /\ UNCHANGED sideVars

\* the stream ends with no tool call: the final assistant message is stored
StreamEndsFinal ==
  /\ pc = "streaming"
  /\ body = <<>>
  /\ LET a == CloseReasoning(acc, now) IN
       /\ a.toolCallsArgs = <<>>
       /\ acc' = a
       /\ messages' = ShowClose(messages, acc, now)
       /\ addMessage(AssistantRow(a))
  /\ Return("finalized")
  /\ now' = now + 1
  /\ UNCHANGED <<currentThreadId, reasoningLevel>>
  /\ UNCHANGED <<lastThreadId>>
  /\ UNCHANGED <<threadId, iteration, msgs, toolOutputs, toolIdx>>
  /\ UNCHANGED <<requests, bodies, respOk, turns, othersLeft, body, callsOpened>>
  /\ UNCHANGED sideVars

\* JSON.parse of the argument text of the next tool call throws
ToolArgumentsThrow ==
  /\ pc = "tools"
  /\ ~JSONParses(acc.toolCallsArgs[toolIdx].arguments)
  /\ Throw("tool arguments")
  /\ UNCHANGED <<currentThreadId, reasoningLevel>>
  /\ UNCHANGED storeVars
  /\ UNCHANGED <<threadId, iteration, msgs, acc, toolOutputs, toolIdx>>
  /\ UNCHANGED <<now, requests, bodies, respOk, turns, othersLeft, body, callsOpened>>
  /\ UNCHANGED sideVars

\* one round of the for loop: the tool runs, its output is kept and stored; after
\* the last round msgs.push(...toolOutputs) and continue
ToolRuns(result) ==
  /\ pc = "tools"
  /\ LET toolCall == acc.toolCallsArgs[toolIdx]
         outputMsg == PayloadEntry("tool", result, <<>>, toolCall.id)
         outputs == Append(toolOutputs, outputMsg)
     IN  /\ JSONParses(toolCall.arguments)
         /\ result \in executeTool(toolCall.name)
         /\ addMessage(DBMessage(threadId, "tool", result, "<undefined>", NoMetrics))
         /\ IF toolIdx = Len(acc.toolCallsArgs)
            THEN /\ msgs' = msgs \o outputs
                 /\ toolOutputs' = outputs
                 /\ toolIdx' = 0
                 /\ pc' = "loop"
            ELSE /\ toolOutputs' = outputs
                 /\ toolIdx' = toolIdx + 1
                 /\ UNCHANGED <<msgs, pc>>
  /\ now' = now + 1
  /\ UNCHANGED uiVars
  /\ UNCHANGED <<lastThreadId>>
  /\ UNCHANGED <<threadId, iteration, acc>>
  /\ UNCHANGED <<requests, bodies, respOk, signal, turnEnd, turns, othersLeft, body,
                 callsOpened>>
  /\ UNCHANGED sideVars

\* the state of App after it is mounted and logged in: no thread chosen, an empty store
TurnInit ==
  /\ messages = <<>>
  /\ isLoading = FALSE
  /\ currentThreadId = NoThread
  /\ reasoningLevel \in ReasoningLevels
  /\ threads = <<>>
  /\ dbMessages = <<>>
  /\ lastThreadId = 0
  /\ lastMessageId = 0
  /\ pc = "idle"
  /\ threadId = NoThread
  /\ iteration = 0
  /\ msgs = <<>>
  /\ acc = InitAcc
  /\ toolOutputs = <<>>
  /\ toolIdx = 0
  /\ now = 1
  /\ requests = <<>>
  /\ bodies = <<>>
  /\ respOk = TRUE
  /\ signal = "none"
  /\ turnEnd = "none"
  /\ turns = 0
  /\ othersLeft = MaxOtherCalls
  /\ body = <<>>
  /\ callsOpened = 0

\* no stream reader runs
ReaderOff ==
  /\ reader = "none"
  /\ stream = <<>>
  /\ pos = 0
  /\ pending = <<>>
  /\ buffer = <<>>
  /\ delivered = <<>>
  /\ readerErr = FALSE
  /\ readerDone = FALSE
  /\ cuts = {}

\* executeTool is not being called on its own
ToolsOff ==
  /\ toolName = "get_current_date"
  /\ toolArgs = "{}"
  /\ serp = [apiKey |-> FALSE, fetch |-> "rejects"]
  /\ toolResult = NotCalled

\* no agent is selected and sendMessage was never called
CallsOff ==
  /\ selectedAgent = NoAgent
  /\ sends = <<>>

\* the store is the sql.js one App imports, with no agent, and no call was made
NoOp == [name |-> "none"]
StoreOff ==
  /\ store = "db"
  /\ agents = <<>>
  /\ lastAgentId = 0
  /\ op = NoOp
  /\ writes = <<>>

\* nothing has been rendered
ViewOff ==
  /\ groupedMessages = <<>>
  /\ renders = 0

\* the store module is loaded and no call of it was made: dbInstance and dbPromise
\* are null, nothing is saved under the storage key
InstancesOff ==
  /\ dbInstance = 0
  /\ dbPromise = "null"
  /\ instances = <<>>
  /\ durable = {}
  /\ saves = {}
  /\ storeCalls = <<>>

Init == TurnInit /\ ReaderOff /\ ToolsOff /\ CallsOff /\ StoreOff /\ ViewOff /\ InstancesOff

Next ==
  \/ \E input \in Inputs : Submit(input)
  \/ IssueRequest
  \/ BudgetExhausted
  \/ FetchRejects
  \/ ResponseNoBody
  \/ \E ok \in BOOLEAN, b \in StreamTable[othersLeft] :
        ResponseBody(ok, WithIds(b, callsOpened))
  \/ ReadFrame
  \/ ReadRejects
  \/ StreamEndsWithTools
  \/ StreamEndsFinal
  \/ ToolArgumentsThrow
  \/ \E result \in UNION {executeTool(n) : n \in ToolNames} : ToolRuns(result)

Spec == Init /\ [][Next]_vars

(***************************************************************************)
(* The stream readers, byte by byte: the read loop of processChatInteraction *)
(* ("app") and streamGroqChat ("groq").  A byte is a string: an ASCII       *)
(* character stands for its byte, "LF" and "CR" for the line ends, "C3" and  *)
(* "A9" for the two bytes of one character, "U+00E9".  A text is a sequence  *)
(* of characters.                                                           *)
(***************************************************************************)
IsLead(b) == b = "C3"
IsContinuation(b) == b = "A9"
Replacement == "U+FFFD"

\* the UTF-8 decoder over the bytes of one chunk, after the bytes held back from
\* the chunk before: [text, pending]
RECURSIVE DecodeBytes(_, _)
DecodeBytes(held, bytes) ==
  IF bytes = <<>> THEN [text |-> <<>>, pending |-> held]
  ELSE LET b == Head(bytes)
           more(c, h, rest) ==
             LET r == DecodeBytes(h, rest) IN [r EXCEPT !.text = <<c>> \o @]
       IN  IF held # <<>>
           THEN IF IsContinuation(b) THEN more("U+00E9", <<>>, Tail(bytes))
                ELSE more(Replacement, <<>>, bytes)
           ELSE IF IsLead(b) THEN DecodeBytes(<<b>>, Tail(bytes))
                ELSE IF IsContinuation(b) THEN more(Replacement, <<>>, Tail(bytes))
                ELSE more(b, <<>>, Tail(bytes))

\* decode(value) with no { stream: true }: a character cut by the end of the chunk
\* is replaced
Decode_Mutant(held, bytes) ==
  LET r == DecodeBytes(<<>>, bytes)
  IN  [text |-> r.text \o (IF r.pending # <<>> THEN <<Replacement>> ELSE <<>>),
       pending |-> <<>>]

\* decoder.decode(value, { stream: true })
Decode(held, bytes) == DecodeBytes(held, bytes)

\* buffer.split('\n'): the pieces between the line feeds, at least one
RECURSIVE Split(_)
Split(text) ==
  IF text = <<>> THEN << <<>> >>
  ELSE LET rest == Split(Tail(text)) IN
       IF Head(text) = "LF" THEN << <<>> >> \o rest
       ELSE << <<Head(text)>> \o Head(rest) >> \o Tail(rest)

\* the lines of the for loop: all the pieces but the last
CompleteLines(pieces) == SubSeq(pieces, 1, Len(pieces) - 1)

\* a loop that keeps no unfinished line; C8_ChunkingInvariant tells it apart
HeldBack_Mutant(pieces) == <<>>

\* buffer = lines.pop() || ''
HeldBack(pieces) == Last(pieces)

IsSpace(c) == c \in {" ", "CR"}

\* String.prototype.trim
RECURSIVE Trim(_)
Trim(text) ==
  IF text = <<>> THEN text
  ELSE IF IsSpace(Head(text)) THEN Trim(Tail(text))
  ELSE IF IsSpace(Last(text)) THEN Trim(SubSeq(text, 1, Len(text) - 1))
  ELSE text

RECURSIVE TrimStart(_)
TrimStart(text) ==
  IF text # <<>> /\ IsSpace(Head(text)) THEN TrimStart(Tail(text)) ELSE text

\* String.prototype.startsWith
StartsWith(text, prefix) ==
  Len(text) >= Len(prefix) /\ SubSeq(text, 1, Len(prefix)) = prefix

DataColon == <<"d", "a", "t", "a", ":">>
DataPrefix == DataColon \o <<" ">>
DonePayload == <<"[", "D", "O", "N", "E", "]">>

\* the JSON texts of the model and what JSON.parse makes of them: "{a}" and
\* "{U+00E9}" stand for {"choices":[{"delta":{"content":...}}]} with that answer
\* text, "{}" for an object with no choices; any other text is not JSON
JSONTexts ==
  {<<"{", "a", "}">>, <<"{", "U+00E9", "}">>, <<"{", "}">>}

\* JSON.parse(text): white space around the value is skipped
JSONParse(text) ==
  LET t == Trim(text) IN
  IF t \notin JSONTexts THEN [throws |-> TRUE, hasDelta |-> FALSE, delta |-> Delta("", "", <<>>)]
  ELSE IF t = <<"{", "}">>
       THEN [throws |-> FALSE, hasDelta |-> FALSE, delta |-> Delta("", "", <<>>)]
       ELSE [throws |-> FALSE, hasDelta |-> TRUE, delta |-> Delta("", t[2], <<>>)]

\* what a reader holds between two chunks, and at its start
ReaderState ==
  [pending |-> pending, buffer |-> buffer, delivered |-> delivered, err |-> readerErr,
   returned |-> FALSE]
ReaderStart ==
  [pending |-> <<>>, buffer |-> <<>>, delivered |-> <<>>, err |-> FALSE,
   returned |-> FALSE]

\* a catch block that throws again; C10_MalformedLineDropped tells it apart
AppCatch_Mutant(st) == [st EXCEPT !.err = TRUE]

\* catch (e) { } of the read loop of processChatInteraction
AppCatch(st) == st

\* one round of the for loop of processChatInteraction up to the use of delta: the
\* delta is handed to the accumulating code
AppLine(st, line) ==
  IF ~StartsWith(line, DataPrefix) \/ Trim(line) = DataPrefix \o DonePayload THEN st
  ELSE LET data == JSONParse(SubSeq(line, Len(DataPrefix) + 1, Len(line))) IN
       IF data.throws THEN AppCatch(st)
       ELSE IF ~data.hasDelta THEN st
       ELSE [st EXCEPT !.delivered = Append(@, data.delta)]

\* catch { } of streamGroqChat
GroqCatch(st) == st

\* one round of the for loop of streamGroqChat: onDelta gets the content
GroqLine(st, line) ==
  LET trimmed == Trim(line) IN
  IF ~StartsWith(trimmed, DataColon) THEN st
  ELSE LET payload == TrimStart(SubSeq(trimmed, Len(DataColon) + 1, Len(trimmed))) IN
       IF payload = DonePayload THEN [st EXCEPT !.returned = TRUE]
       ELSE LET data == JSONParse(payload) IN
            IF data.throws THEN GroqCatch(st)
            ELSE IF data.hasDelta /\ data.delta.content # ""
                 THEN [st EXCEPT !.delivered = Append(@, data.delta.content)]
                 ELSE st

\* for (const line of lines), left by a return or by what is thrown
RECURSIVE ForLines(_, _, _)
ForLines(rd, st, lines) ==
  IF lines = <<>> \/ st.err \/ st.returned THEN st
  ELSE ForLines(rd,
                IF rd = "app" THEN AppLine(st, Head(lines)) ELSE GroqLine(st, Head(lines)),
                Tail(lines))

\* the body of while (true) for one chunk
Feed(rd, st, chunk) ==
  LET d == Decode(st.pending, chunk)
      pieces == Split(st.buffer \o d.text)
  IN  ForLines(rd, [st EXCEPT !.pending = d.pending, !.buffer = HeldBack(pieces)],
               CompleteLines(pieces))

\* reader.read() resolves with the next n bytes of the stream
ReadChunk(n) ==
  /\ reader \in {"app", "groq"}
  /\ ~readerDone
  /\ n >= 1 /\ pos + n <= Len(stream)
  /\ LET st == Feed(reader, ReaderState, SubSeq(stream, pos + 1, pos + n)) IN
       /\ pending' = st.pending
       /\ buffer' = st.buffer
       /\ delivered' = st.delivered
       /\ readerErr' = st.err
       /\ readerDone' = (st.err \/ st.returned)
       /\ cuts' = cuts \cup (IF st.pending # <<>> THEN {"character"} ELSE {})
                       \cup (IF st.buffer # <<>> /\ pos + n < Len(stream)
                             THEN {"line"} ELSE {})
  /\ pos' = pos + n
  /\ UNCHANGED <<reader, stream>>
  /\ UNCHANGED offReaderVars

\* reader.read() resolves with done: the loop is left
ReadEnd ==
  /\ reader \in {"app", "groq"}
  /\ ~readerDone
  /\ pos = Len(stream)
  /\ readerDone' = TRUE
  /\ UNCHANGED <<reader, stream, pos, pending, buffer, delivered, readerErr, cuts>>
  /\ UNCHANGED offReaderVars

\* TextEncoder: the bytes of a text
RECURSIVE Encode(_)
Encode(text) ==
  IF text = <<>> THEN <<>>
  ELSE (IF Head(text) = "U+00E9" THEN <<"C3", "A9">> ELSE <<Head(text)>>)
       \o Encode(Tail(text))

\* the lines a server sends: an answer frame, one with a two-byte character that
\* is ended by CR LF, the end marker, a cut frame, an object with no delta, and the
\* empty line between events
EventLines ==
  {DataPrefix \o <<"{", "a", "}">>,
   DataPrefix \o <<"{", "U+00E9", "}", "CR">>,
   DataPrefix \o DonePayload,
   DataPrefix \o <<"{", "a">>,
   DataPrefix \o <<"{", "}">>,
   <<>>}

\* the texts of 1 to k lines, each ended by a line feed
RECURSIVE EventTexts(_)
EventTexts(k) ==
  IF k = 0 THEN {<<>>}
  ELSE {l \o <<"LF">> \o t : l \in EventLines, t \in EventTexts(k - 1)}
       \cup (IF k > 1 THEN EventTexts(k - 1) ELSE {})

\* the bodies given to a reader: the bytes of such a text
EventStreams == {Encode(t) : t \in EventTexts(MaxLines)}

InitReader ==
  /\ TurnInit
  /\ ToolsOff
  /\ CallsOff
  /\ StoreOff /\ ViewOff /\ InstancesOff
  /\ reasoningLevel = "medium"
  /\ reader \in {"app", "groq"}
  /\ stream \in EventStreams
  /\ pos = 0
  /\ pending = <<>>
  /\ buffer = <<>>
  /\ delivered = <<>>
  /\ readerErr = FALSE
  /\ readerDone = FALSE
  /\ cuts = {}

NextReader ==
  \/ \E n \in 1..(Len(stream) - pos) : ReadChunk(n)
  \/ ReadEnd

SpecReader == InitReader /\ [][NextReader]_vars

(***************************************************************************)
(* executeTool on its own: one call for every name, argument value and     *)
(* state of the search service.                                            *)
(***************************************************************************)
InitTools ==
  /\ TurnInit
  /\ ReaderOff
  /\ CallsOff
  /\ StoreOff /\ ViewOff /\ InstancesOff
  /\ reasoningLevel = "medium"
  /\ toolName \in ToolNames
  /\ toolArgs \in ToolArguments
  /\ serp \in SerpEnvs
  /\ toolResult = NotCalled

NextTools == CallTool

SpecTools == InitTools /\ [][NextTools]_vars

(***************************************************************************)
(* sendMessage await by await.  Every call is a record of sends: the values *)
(* its closure captured, the await it is suspended at, and what it has     *)
(* done.  The tool loop of processChatInteraction is the subject of Spec;   *)
(* here a turn is its first request and a plain answer.                     *)
(***************************************************************************)
\* a test that sends every call through createThread; C17_ThreadThenMessageThenRequest
\* tells it apart
NeedsThread_Mutant(targetThreadId) == TRUE

\* if (!targetThreadId)
NeedsThread(targetThreadId) == targetThreadId = NoThread

\* a sendMessage call that has neither returned at its guard nor reached its finally
InFlight(call) == call.pc \notin {"returned", "done"}

AnswerText == "respuesta"

\* the submit handler runs up to its first await
sendMessage(input) ==
  /\ Len(sends) < MaxSends
  /\ LET call == [input |-> input, messages |-> messages,
                  currentThreadId |-> currentThreadId,
                  targetThreadId |-> currentThreadId, agent |-> selectedAgent,
                  overlaps |-> \E j \in DOMAIN sends : InFlight(sends[j]),
                  pc |-> "returned", created |-> NoThread, stored |-> 0, requested |-> 0]
     IN  IF IsBlank(input) \/ isLoading
         THEN /\ sends' = Append(sends, call)
              /\ UNCHANGED messages
         ELSE IF NeedsThread(currentThreadId)
         THEN /\ sends' = Append(sends, [call EXCEPT !.pc = "createThread"])
              /\ UNCHANGED messages
         ELSE /\ sends' = Append(sends, [call EXCEPT !.pc = "addMessage"])
              /\ messages' = Append(messages, UserMessage(input))
  /\ now' = now + 1
  /\ UNCHANGED <<isLoading, currentThreadId, reasoningLevel>>
  /\ UNCHANGED <<storeVars, turnVars, readerVars, toolVars, selectedAgent, apiVars, viewVars, instVars>>
  /\ UNCHANGED <<requests, bodies, respOk, signal, turnEnd, turns, othersLeft, body,
                 callsOpened>>

\* await createThread(...) resolves: the thread is bound and the user message shown
createThreadResolves(i) ==
  /\ sends[i].pc = "createThread"
  /\ LET id == lastThreadId + 1 IN
       /\ threads' = createThread(threads, id, ThreadTitle(sends[i].input),
                                  sends[i].agent, now)
       /\ lastThreadId' = id
       /\ currentThreadId' = id
       /\ sends' = [sends EXCEPT ![i].pc = "addMessage", ![i].targetThreadId = id,
                                 ![i].created = id]
  /\ messages' = Append(sends[i].messages, UserMessage(sends[i].input))
  /\ now' = now + 1
  /\ UNCHANGED <<isLoading, reasoningLevel, dbMessages, lastMessageId>>
  /\ UNCHANGED <<turnVars, readerVars, toolVars, selectedAgent, apiVars, viewVars, instVars>>
  /\ UNCHANGED <<requests, bodies, respOk, signal, turnEnd, turns, othersLeft, body,
                 callsOpened>>

\* await addMessage(user message) resolves: setIsLoading(true), and
\* processChatInteraction runs up to its first await
addMessageResolves(i) ==
  /\ sends[i].pc = "addMessage"
  /\ addMessage(DBMessage(sends[i].targetThreadId, "user", sends[i].input,
                          "<undefined>", NoMetrics))
  /\ isLoading' = TRUE
  /\ messages' = Append(messages, Placeholder)
  /\ sends' = [sends EXCEPT ![i].pc = "import", ![i].stored = lastMessageId + 1]
  /\ now' = now + 1
  /\ UNCHANGED <<currentThreadId, reasoningLevel, lastThreadId>>
  /\ UNCHANGED <<turnVars, readerVars, toolVars, selectedAgent, apiVars, viewVars, instVars>>
  /\ UNCHANGED <<requests, bodies, respOk, signal, turnEnd, turns, othersLeft, body,
                 callsOpened>>

\* await import('./services/tools') resolves: the first request is issued
firstRequest(i) ==
  /\ sends[i].pc = "import"
  /\ requests' = Append(requests,
       MessagesPayload(ContextMessages(
         Append(sends[i].messages, UserMessage(sends[i].input)))))
  /\ sends' = [sends EXCEPT ![i].pc = "fetch", ![i].requested = Len(requests) + 1]
  /\ now' = now + 1
  /\ UNCHANGED <<uiVars, storeVars, turnVars, readerVars, toolVars, selectedAgent, apiVars, viewVars, instVars>>
  /\ UNCHANGED <<bodies, respOk, signal, turnEnd, turns, othersLeft, body, callsOpened>>

\* the stream of a plain answer ends: the answer is shown and stored, and the
\* finally block runs
turnEnds(i) ==
  /\ sends[i].pc = "fetch"
  /\ messages' = IF messages = <<>> \/ Last(messages).role # "assistant" THEN messages
                 ELSE [messages EXCEPT ![Len(messages)].content = AnswerText]
  /\ addMessage(DBMessage(sends[i].targetThreadId, "assistant", AnswerText, "", NoMetrics))
  /\ isLoading' = FALSE
  /\ sends' = [sends EXCEPT ![i].pc = "done"]
  /\ now' = now + 1
  /\ UNCHANGED <<currentThreadId, reasoningLevel, lastThreadId>>
  /\ UNCHANGED <<turnVars, readerVars, toolVars, selectedAgent, apiVars, viewVars, instVars>>
  /\ UNCHANGED <<requests, bodies, respOk, signal, turnEnd, turns, othersLeft, body,
                 callsOpened>>

InitSubmit ==
  /\ TurnInit
  /\ ReaderOff
  /\ ToolsOff
  /\ CallsOff
  /\ StoreOff /\ ViewOff /\ InstancesOff
  /\ reasoningLevel = "medium"

NextSubmit ==
  \/ \E input \in Inputs : sendMessage(input)
  \/ \E i \in DOMAIN sends : createThreadResolves(i)
  \/ \E i \in DOMAIN sends : addMessageResolves(i)
  \/ \E i \in DOMAIN sends : firstRequest(i)
  \/ \E i \in DOMAIN sends : turnEnds(i)

SpecSubmit == InitSubmit /\ [][NextSubmit]_vars

(***************************************************************************)
(* The conversation store as its callers use it: the sql.js store App       *)
(* imports ("db", src/unnamed/part_004) and the later one ("localSqlite",   *)
(* src/src/services/localSqlite.ts).  Every call changes the tables in      *)
(* memory in one step and then saves the exported database; op keeps the    *)
(* last call, writes the time and the kind of the last write of every       *)
(* thread.                                                                  *)
(***************************************************************************)
Stores == {"db", "localSqlite"}
Titles == {"hola", "otro"}

\* DELETE FROM threads WHERE id = ?
deleteThreadRow(ths, id) == [i \in DOMAIN ths \ {id} |-> ths[i]]

\* DELETE FROM messages WHERE thread_id = ?
deleteMessages(rows, id) ==
  LET Stays(r) == r.thread_id # id IN SelectSeq(rows, Stays)

\* updateThreadTitle(id, title) of db; updateThread(id, {title}) of localSqlite,
\* which also writes updated_at
updateThreadTitle(impl, ths, id, title, t) ==
  IF id \notin DOMAIN ths THEN ths
  ELSE IF impl = "db" THEN [ths EXCEPT ![id].title = title]
  ELSE [ths EXCEPT ![id].title = title, ![id].updated_at = t]

\* updateThreadAgent(id, agentId) of db; updateThread(id, {agent_id}) of localSqlite,
\* where updates.agent_id ?? existing.agent_id keeps the agent when given null
updateThreadAgent(impl, ths, id, agentId, t) ==
  IF id \notin DOMAIN ths THEN ths
  ELSE IF impl = "db" THEN [ths EXCEPT ![id].agent_id = agentId]
  ELSE [ths EXCEPT ![id].agent_id = IF agentId = NoAgent THEN @ ELSE agentId,
                   ![id].updated_at = t]

\* an ascending sort; C20_ListThreadsOrder tells it apart
Before_Mutant(impl, ths, a, b) ==
  \/ ths[a].updated_at < ths[b].updated_at
  \/ ths[a].updated_at = ths[b].updated_at /\ (impl = "db" \/ a > b)

\* ORDER BY updated_at DESC of db (rows of equal updated_at in any order), and
\* ORDER BY updated_at DESC, id DESC of localSqlite: row a may come before row b
Before(impl, ths, a, b) ==
  \/ ths[a].updated_at > ths[b].updated_at
  \/ ths[a].updated_at = ths[b].updated_at /\ (impl = "db" \/ a > b)

\* the lists getThreads / listThreads may return: every row of threads once, in the
\* order of the query
getThreads(impl, ths) ==
  LET n == Cardinality(DOMAIN ths) IN
    {l \in [1..n -> DOMAIN ths] :
       /\ \A i, j \in 1..n : i # j => l[i] # l[j]
       /\ \A i, j \in 1..n : i < j => Before(impl, ths, l[i], l[j])}

\* getAgentById(id): the row, or null when the SELECT finds none
getAgentById(ags, id) == IF id \in DOMAIN ags THEN id ELSE NoAgent

Call(name, id, ok, listing) == [name |-> name, id |-> id, ok |-> ok, listing |-> listing]

\* the history of thread id after a write at this time: whether the write is a
\* message, the ids of the rows ever appended to the thread, and the last list of
\* its messages a caller was given
Written(w, id, what) ==
  [i \in DOMAIN w \cup {id} |->
     IF i # id THEN w[i]
     ELSE [at |-> now, message |-> what = "message",
           appended |-> IF what = "create" THEN <<>>
                        ELSE IF what = "message" THEN Append(w[id].appended, lastMessageId + 1)
                        ELSE w[id].appended,
           listed |-> IF what = "create" THEN <<>> ELSE w[id].listed]]

\* the clock moves on between two calls
Tick ==
  /\ now < MaxClock
  /\ now' = now + 1
  /\ UNCHANGED <<uiVars, storeVars, turnVars, readerVars, toolVars, callVars, apiVars, viewVars, instVars>>
  /\ UNCHANGED <<requests, bodies, respOk, signal, turnEnd, turns, othersLeft, body,
                 callsOpened>>

StoreFrame ==
  /\ UNCHANGED <<turnVars, envVars, readerVars, toolVars, sends, store, viewVars, instVars>>
  /\ UNCHANGED <<isLoading, reasoningLevel>>

CreateThread(title) ==
  /\ lastThreadId < MaxThreads
  /\ threads' = createThread(threads, lastThreadId + 1, title, selectedAgent, now)
  /\ lastThreadId' = lastThreadId + 1
  /\ op' = Call("createThread", lastThreadId + 1, TRUE, <<>>)
  /\ writes' = Written(writes, lastThreadId + 1, "create")
  /\ UNCHANGED <<dbMessages, lastMessageId, agents, lastAgentId>>
  /\ UNCHANGED <<messages, currentThreadId, selectedAgent>>
  /\ StoreFrame

\* addMessage({thread_id: id, ...}) by a caller that was given id when the thread was
\* made; ok tells whether the save of the exported database succeeds
AppendTo(id, ok) ==
  /\ id \in 1..lastThreadId
  /\ addMessage(DBMessage(id, "assistant", AnswerText, "", NoMetrics))
  /\ op' = Call("addMessage", id, ok, <<>>)
  /\ writes' = IF id \in DOMAIN threads THEN Written(writes, id, "message") ELSE writes
  /\ UNCHANGED <<lastThreadId, agents, lastAgentId>>
  /\ UNCHANGED <<messages, currentThreadId, selectedAgent>>
  /\ StoreFrame

AddMessage(id, ok) ==
  /\ lastMessageId < MaxRows
  /\ AppendTo(id, ok)

DeleteThread(id) ==
  /\ id \in DOMAIN threads
  /\ threads' = deleteThreadRow(threads, id)
  /\ dbMessages' = deleteMessages(dbMessages, id)
  /\ op' = Call("deleteThread", id, TRUE, <<>>)
  /\ writes' = [i \in DOMAIN writes \ {id} |-> writes[i]]
  /\ UNCHANGED <<lastThreadId, lastMessageId, agents, lastAgentId>>
  /\ UNCHANGED <<messages, currentThreadId, selectedAgent>>
  /\ StoreFrame

UpdateThreadTitle(id, title) ==
  /\ id \in DOMAIN threads
  /\ threads[id].title # title
  /\ threads' = updateThreadTitle(store, threads, id, title, now)
  /\ op' = Call("updateThreadTitle", id, TRUE, <<>>)
  /\ writes' = Written(writes, id, "title")
  /\ UNCHANGED <<dbMessages, lastThreadId, lastMessageId, agents, lastAgentId>>
  /\ UNCHANGED <<messages, currentThreadId, selectedAgent>>
  /\ StoreFrame

\* updateThreadAgent(id, agentId) called on its own
UpdateThreadAgent(id, agentId) ==
  /\ id \in DOMAIN threads
  /\ threads[id].agent_id # agentId
  /\ threads' = updateThreadAgent(store, threads, id, agentId, now)
  /\ op' = Call("updateThreadAgent", id, TRUE, <<>>)
  /\ writes' = Written(writes, id, "agent")
  /\ UNCHANGED <<dbMessages, lastThreadId, lastMessageId, agents, lastAgentId>>
  /\ UNCHANGED <<messages, currentThreadId, selectedAgent>>
  /\ StoreFrame

\* handleSelectAgent(agent): the agent is selected and, when a thread is open, bound
\* to it
handleSelectAgent(agent) ==
  /\ agent \in DOMAIN agents \cup {NoAgent}
  /\ agent # selectedAgent
  /\ selectedAgent' = agent
  /\ IF currentThreadId # NoThread
     THEN /\ threads' = updateThreadAgent(store, threads, currentThreadId, agent, now)
          /\ op' = Call("updateThreadAgent", currentThreadId, TRUE, <<>>)
          /\ writes' = IF currentThreadId \in DOMAIN threads
                       THEN Written(writes, currentThreadId, "agent") ELSE writes
     ELSE /\ op' = Call("handleSelectAgent", NoThread, TRUE, <<>>)
          /\ UNCHANGED <<threads, writes>>
  /\ UNCHANGED <<dbMessages, lastThreadId, lastMessageId, agents, lastAgentId>>
  /\ UNCHANGED <<messages, currentThreadId>>
  /\ StoreFrame

GetThreads(listing) ==
  /\ op.name # "getThreads"
  /\ listing \in getThreads(store, threads)
  /\ op' = Call("getThreads", NoThread, TRUE, listing)
  /\ UNCHANGED <<storeVars, agents, lastAgentId, writes>>
  /\ UNCHANGED <<messages, currentThreadId, selectedAgent>>
  /\ StoreFrame

\* the agent editor of the sidebar: addAgent, updateAgent, deleteAgent
AddAgent ==
  /\ lastAgentId < MaxAgents
  /\ agents' = [i \in DOMAIN agents \cup {lastAgentId + 1} |->
                  IF i = lastAgentId + 1 THEN [name |-> "agente"] ELSE agents[i]]
  /\ lastAgentId' = lastAgentId + 1
  /\ op' = Call("addAgent", lastAgentId + 1, TRUE, <<>>)
  /\ UNCHANGED <<storeVars, writes>>
  /\ UNCHANGED <<messages, currentThreadId, selectedAgent>>
  /\ StoreFrame

UpdateAgent(id) ==
  /\ id \in DOMAIN agents
  /\ agents[id].name = "agente"
  /\ agents' = [agents EXCEPT ![id].name = "editado"]
  /\ op' = Call("updateAgent", id, TRUE, <<>>)
  /\ UNCHANGED <<storeVars, lastAgentId, writes>>
  /\ UNCHANGED <<messages, currentThreadId, selectedAgent>>
  /\ StoreFrame

\* DELETE FROM agents WHERE id = ?: no row of threads is touched
DeleteAgent(id) ==
  /\ id \in DOMAIN agents
  /\ agents' = [i \in DOMAIN agents \ {id} |-> agents[i]]
  /\ op' = Call("deleteAgent", id, TRUE, <<>>)
  /\ UNCHANGED <<storeVars, lastAgentId, writes>>
  /\ UNCHANGED <<messages, currentThreadId, selectedAgent>>
  /\ StoreFrame

Reverse(s) == [i \in 1..Len(s) |-> s[Len(s) + 1 - i]]

\* SELECT ... WHERE thread_id = ? ORDER BY id ASC
listMessages(rows, id) ==
  LET Mine(r) == r.thread_id = id IN SelectSeq(rows, Mine)

\* SELECT ... WHERE thread_id = ? ORDER BY id DESC LIMIT ? OFFSET ?, then reverse()
getThreadMessages(rows, id, limit, offset) ==
  LET desc == Reverse(listMessages(rows, id))
      last == IF offset + limit < Len(desc) THEN offset + limit ELSE Len(desc)
  IN  Reverse(SubSeq(desc, offset + 1, last))

\* a row as loadThreadData maps it into the visible history
ShownRow(row) ==
  [role |-> row.role, content |-> row.content,
   reasoning_content |-> IF row.reasoning_content = "<null>" THEN "<undefined>"
                         ELSE row.reasoning_content,
   metrics |-> row.metrics]

\* handleSelectThread(id) and the effect it triggers, in the App that reads the
\* store directly: loadThreadData of App.tsx 319-342
loadThreadData(id) ==
  /\ id \in DOMAIN threads
  /\ id # currentThreadId
  /\ currentThreadId' = id
  /\ selectedAgent' = IF threads[id].agent_id # NoAgent
                      THEN getAgentById(agents, threads[id].agent_id)
                      ELSE NoAgent
  /\ LET threadMsgs == IF store = "db"
                       THEN getThreadMessages(dbMessages, id, MessagesLimit, 0)
                       ELSE listMessages(dbMessages, id)
     IN  messages' = [i \in 1..Len(threadMsgs) |-> ShownRow(threadMsgs[i])]
  /\ op' = Call("loadThreadData", id, TRUE, <<>>)
  /\ UNCHANGED <<storeVars, agents, lastAgentId, writes>>
  /\ StoreFrame

\* the same in the App that reads the tables through the backend: loadThreadData of
\* App.tsx 831-881.  For an agent that is gone the backend answers the GET of the
\* agent with a status that is not ok, or with an empty body.
AgentAnswers == {"not ok", "null"}
loadThreadDataBackend(id, agentRes) ==
  /\ id \in DOMAIN threads
  /\ id # currentThreadId
  /\ currentThreadId' = id
  /\ LET rows == listMessages(dbMessages, id)
     IN  messages' = [i \in 1..Len(rows) |->
                        [role |-> rows[i].role, content |-> rows[i].content,
                         reasoning_content |-> rows[i].reasoning_content,
                         metrics |-> rows[i].metrics]]
  /\ selectedAgent' = IF threads[id].agent_id = NoAgent THEN NoAgent
                      ELSE IF threads[id].agent_id \in DOMAIN agents
                      THEN threads[id].agent_id
                      ELSE IF agentRes = "not ok" THEN selectedAgent
                      ELSE NoAgent
  /\ op' = Call("loadThreadDataBackend", id, TRUE, <<>>)
  /\ UNCHANGED <<storeVars, agents, lastAgentId, writes>>
  /\ StoreFrame

\* handleNewThread()
handleNewThread ==
  /\ currentThreadId # NoThread
  /\ currentThreadId' = NoThread
  /\ messages' = <<>>
  /\ selectedAgent' = NoAgent
  /\ op' = Call("handleNewThread", NoThread, TRUE, <<>>)
  /\ UNCHANGED <<storeVars, agents, lastAgentId, writes>>
  /\ StoreFrame

InitStore ==
  /\ TurnInit
  /\ ReaderOff
  /\ ToolsOff
  /\ CallsOff
  /\ reasoningLevel = "medium"
  /\ store \in Stores
  /\ ViewOff /\ InstancesOff
  /\ agents = <<>>
  /\ lastAgentId = 0
  /\ op = NoOp
  /\ writes = <<>>

NextStore ==
  \/ Tick
  \/ \E title \in Titles : CreateThread(title)
  \/ \E id \in 1..MaxThreads, ok \in BOOLEAN : AddMessage(id, ok)
  \/ \E id \in 1..MaxThreads : DeleteThread(id)
  \/ \E id \in 1..MaxThreads, title \in Titles : UpdateThreadTitle(id, title)
  \/ \E id \in 1..MaxThreads, agentId \in {NoAgent, 1} : UpdateThreadAgent(id, agentId)
  \/ \E listing \in getThreads(store, threads) : GetThreads(listing)

SpecStore == InitStore /\ [][NextStore]_vars

\* the ids of the rows of a list of messages
Ids(rows) == [i \in 1..Len(rows) |-> rows[i].id]

\* a caller lists the messages of thread id: getThreadMessages(id) of db with its
\* default limit and offset, listMessages(id) of localSqlite
GetThreadMessages(id) ==
  /\ id \in DOMAIN threads
  /\ LET rows == IF store = "db"
                 THEN getThreadMessages(dbMessages, id, MessagesLimit, 0)
                 ELSE listMessages(dbMessages, id)
     IN  /\ op' = Call("getThreadMessages", id, TRUE, Ids(rows))
         /\ writes' = [writes EXCEPT ![id].listed = Ids(rows)]
  /\ UNCHANGED <<storeVars, agents, lastAgentId>>
  /\ UNCHANGED <<messages, currentThreadId, selectedAgent>>
  /\ StoreFrame

\* a long conversation in the first thread, listed as it grows, while another
\* thread is made and deleted
NextHistory ==
  \/ \E title \in Titles : CreateThread(title)
  \/ lastMessageId < MaxAppends /\ AppendTo(1, TRUE)
  \/ \E id \in 2..MaxThreads : DeleteThread(id)
  \/ GetThreadMessages(1)

SpecHistory == InitStore /\ [][NextHistory]_vars

\* the agent editor, the agent picker and the thread list of the sidebar
NextAgents ==
  \/ \E title \in Titles : CreateThread(title)
  \/ \E agent \in 0..MaxAgents : handleSelectAgent(agent)
  \/ AddAgent
  \/ \E id \in 1..MaxAgents : UpdateAgent(id)
  \/ \E id \in 1..MaxAgents : DeleteAgent(id)
  \/ \E id \in 1..MaxThreads : loadThreadData(id)
  \/ \E id \in 1..MaxThreads, agentRes \in AgentAnswers : loadThreadDataBackend(id, agentRes)
  \/ handleNewThread

SpecAgents == InitStore /\ [][NextAgents]_vars

(***************************************************************************)
(* A turn during which the user leaves the conversation.  Neither          *)
(* handleNewThread nor handleSelectThread holds anything of the running    *)
(* sendMessage call; processChatInteraction takes no abort signal.         *)
(***************************************************************************)
\* the user presses "new chat" while the turn of the open thread is in flight
NavigateAway ==
  /\ pc # "idle"
  /\ handleNewThread

NextNav ==
  \/ Next
  \/ NavigateAway

SpecNav == Init /\ [][NextNav]_vars

(***************************************************************************)
(* Properties of the turn controller.                                      *)
(***************************************************************************)
\* a submission was made and its sendMessage call is over
TurnOver == pc = "idle" /\ signal \in {"resolved", "rejected"}

\* the rows stored since the user message of the last submission
RowsOfTurn ==
  LET users == {i \in 1..Len(dbMessages) : dbMessages[i].role = "user"}
      from == IF users = {} THEN 0 ELSE CHOOSE i \in users : \A j \in users : j <= i
  IN  SubSeq(dbMessages, from + 1, Len(dbMessages))

\* the visible messages appended since the user message of the last submission
ShownOfTurn ==
  LET users == {i \in 1..Len(messages) : messages[i].role = "user"}
      from == IF users = {} THEN 0 ELSE CHOOSE i \in users : \A j \in users : j <= i
  IN  SubSeq(messages, from + 1, Len(messages))

HasToolCall(b) == \E k \in 1..Len(b) : OpensCall(b[k])

\* C1: one submission issues at most 5 requests to the model endpoint, whatever
\* the responses are, also when every response holds a tool call.
C1_AtMostFiveRequests == Len(requests) <= 5

\* the fifth response of a submission holds a tool call as the four before it did,
\* and the turn is over
C1_ToolCallInEveryResponse ==
  /\ TurnOver
  /\ Len(requests) = 5
  /\ Len(bodies) = 5
  /\ \A i \in 1..5 : HasToolCall(bodies[i])
  /\ turnEnd = "exhausted"

\* C2: when the fifth iteration ends with its tool calls run (the budget is used up
\* while the model still asks for tools), the turn is aborted: the caller gets the
\* failure signal and an error message is shown.
C2_BudgetExhaustionAborts ==
  (/\ TurnOver
   /\ iteration = 5
   /\ acc.toolCallsArgs # <<>>
   /\ Len(toolOutputs) = Len(acc.toolCallsArgs)
   /\ toolIdx = 0)
  => (signal = "rejected" /\ Last(messages) = ErrorMessage)

\* C3: after a transport error of a request (fetch rejects, a response of a
\* non-success status, a response with no body) the turn is over as aborted, one
\* error message is shown, and the store holds no assistant message of that iteration.
C3_TransportErrorAborts ==
  (/\ TurnOver
   /\ turnEnd \in {"fetch rejected", "no response body"} \/ ~respOk)
  => /\ signal = "rejected"
     /\ Len(SelectSeq(ShownOfTurn, LAMBDA m : m = ErrorMessage)) = 1
     /\ Len(SelectSeq(RowsOfTurn, LAMBDA r : r.role = "assistant")) < iteration

\* C4: a tool call never aborts the turn: no turn is rejected from inside the loop
\* over the tool calls (toolIdx is the position in that loop, 0 outside it).
C4_ToolCallNeverAborts == signal = "rejected" => toolIdx = 0

\* the first response of the scenario: one fragment that opens a call of
\* get_current_date, with no argument text; and the second: a plain answer
DateCallNoArguments == CallFrames(1, "get_current_date", "", 0)
PlainAnswer == <<Delta("", "a", <<>>)>>

\* C5: when the first response is one tool-call fragment for get_current_date with
\* no arguments and the second a plain answer (and no transport error happens), the
\* turn makes exactly 2 requests, the second holds the tool result with the id of
\* the call, and the final assistant message with the answer is stored.
C5_DateToolScenario ==
  (/\ TurnOver
   /\ bodies # <<>> /\ bodies[1] = DateCallNoArguments
   /\ Len(bodies) >= 2 => bodies[2] = PlainAnswer
   /\ turnEnd \notin {"fetch rejected", "no response body", "read rejected"})
  => /\ Len(requests) = 2
     /\ \E i \in 1..Len(requests[2]) :
          /\ requests[2][i].role = "tool"
          /\ requests[2][i].tool_call_id = 1
          /\ requests[2][i].content = DateText
     /\ Last(dbMessages).role = "assistant"
     /\ Last(dbMessages).content = "a"

\* C6: when a stream ends with no tool call accumulated, one row is appended to the
\* store, the assistant message with the accumulated answer, reasoning and metrics;
\* the turn is over as resolved with no request added; and nothing is stored after
\* it while that turn is the last one.
C6_FinalAssistantStored ==
  [][/\ (/\ pc = "streaming" /\ body = <<>> /\ acc.toolCallsArgs = <<>>
         /\ pc' # "streaming" /\ turnEnd' # "read rejected")
        => /\ Len(dbMessages') = Len(dbMessages) + 1
           /\ SubSeq(dbMessages', 1, Len(dbMessages)) = dbMessages
           /\ Last(dbMessages').thread_id = threadId
           /\ Last(dbMessages').role = "assistant"
           /\ Last(dbMessages').content = acc.assistantContent
           /\ Last(dbMessages').reasoning_content =
                IF acc.assistantReasoning = "" THEN "<null>" ELSE acc.assistantReasoning
           /\ Last(dbMessages').metrics =
                Metrics(IF acc.reasoningStartTime = Undefined THEN Undefined
                        ELSE IF acc.reasoningEndTime = Undefined
                             THEN now - acc.reasoningStartTime
                             ELSE acc.reasoningEndTime - acc.reasoningStartTime)
           /\ pc' = "idle" /\ signal' = "resolved"
           /\ requests' = requests
     /\ (turnEnd = "finalized" /\ turnEnd' = "finalized")
        => (dbMessages' = dbMessages /\ requests' = requests)]_vars

\* a turn is over with its final assistant message, answer and reasoning, stored last
C6_FinalStored ==
  /\ TurnOver
  /\ turnEnd = "finalized"
  /\ Last(dbMessages).role = "assistant"
  /\ Last(dbMessages).content = "a"
  /\ Last(dbMessages).reasoning_content = "r"
  /\ Last(dbMessages).metrics.reasoningDurationMs > 0

\* C7: when the tool calls of a stream have run and the next request is not yet
\* issued, the assistant message with its tool-call descriptors and then one tool
\* message per descriptor, with the id of its call and in the order of the calls,
\* are the last entries of the working list and the last rows of the store.
C7_ToolRoundInListAndStore ==
  (pc = "loop" /\ iteration > 0)
  => LET calls == acc.toolCallsArgs
         n == Len(calls)
         round == <<PayloadEntry("assistant", acc.assistantContent, calls, 0)>>
                  \o [i \in 1..n |->
                        PayloadEntry("tool", toolOutputs[i].content, <<>>, calls[i].id)]
     IN  /\ n > 0 /\ Len(toolOutputs) = n
         /\ Len(msgs) > n /\ SubSeq(msgs, Len(msgs) - n, Len(msgs)) = round
         /\ Len(dbMessages) > n
         /\ [i \in 1..(n + 1) |-> FromStored(dbMessages[Len(dbMessages) - n - 1 + i])]
            = round

\* the part of C7 about the working list alone
C7_ToolRoundInList ==
  (pc = "loop" /\ iteration > 0)
  => LET calls == acc.toolCallsArgs
         n == Len(calls)
     IN  /\ n > 0 /\ Len(toolOutputs) = n
         /\ Len(msgs) > n
         /\ SubSeq(msgs, Len(msgs) - n, Len(msgs))
            = <<PayloadEntry("assistant", acc.assistantContent, calls, 0)>>
              \o [i \in 1..n |->
                    PayloadEntry("tool", toolOutputs[i].content, <<>>, calls[i].id)]

(***************************************************************************)
(* Properties of the stream readers.                                       *)
(***************************************************************************)
\* the complete lines of a stream, and what a reader delivers of a list of lines
LinesOf(s) == CompleteLines(Split(DecodeBytes(<<>>, s).text))
DeliveredOf(rd, lines) == ForLines(rd, ReaderStart, lines).delivered

\* a data: line, and its payload
IsDataLine(l) == StartsWith(Trim(l), DataColon)
PayloadOf(l) == TrimStart(SubSeq(Trim(l), Len(DataColon) + 1, Len(Trim(l))))
IsDoneLine(l) == IsDataLine(l) /\ PayloadOf(l) = DonePayload
IsFrameLine(l) ==
  IsDataLine(l) /\ ~JSONParse(PayloadOf(l)).throws /\ JSONParse(PayloadOf(l)).hasDelta
IsMalformedLine(l) == IsDataLine(l) /\ ~IsDoneLine(l) /\ ~IsFrameLine(l)

\* C8: when a reader has read a stream to its end, what it delivered, in order, is
\* what it delivers when the stream comes as one chunk, however the bytes were
\* split into chunks.
C8_ChunkingInvariant ==
  readerDone => /\ delivered = Feed(reader, ReaderStart, stream).delivered
                /\ ~readerErr

\* a stream of two answer frames was read to its end in chunks, one of which ended
\* inside a line and one inside a character
C8_SplitInsideLineAndCharacter ==
  /\ readerDone
  /\ cuts = {"line", "character"}
  /\ Len(delivered) = 2
  /\ \A i \in 1..Len(LinesOf(stream)) : IsFrameLine(LinesOf(stream)[i])

\* C9: when a reader has read a stream to its end, what it delivered is what the
\* lines before the first [DONE] line give, and it ended without error.
C9_NothingAfterDone ==
  readerDone =>
    LET lines == LinesOf(stream)
        dones == {i \in 1..Len(lines) : IsDoneLine(lines[i])}
        first == IF dones = {} THEN Len(lines) + 1
                 ELSE CHOOSE i \in dones : \A j \in dones : i <= j
    IN  /\ delivered = DeliveredOf(reader, SubSeq(lines, 1, first - 1))
        /\ ~readerErr

C11_NeverThrows ==
  toolResult # NotCalled =>
    /\ toolResult.settled = "resolved"
    /\ toolResult.value \in STRING
    /\ toolName \notin {"get_current_date", "web_search"} =>
         toolResult.value = "Herramienta " \o toolName \o " no implementada."

\* web_search was called with a key while the proxy could not be reached
C11_SearchFailureResolved ==
  /\ toolName = "web_search"
  /\ serp = [apiKey |-> TRUE, fetch |-> "rejects"]
  /\ toolArgs # NullArgs
  /\ toolResult = Resolved("Error al buscar en web: Failed to fetch")


(***************************************************************************)
(* Properties of sendMessage, await by await.                              *)
(***************************************************************************)
\* the row of the store that holds the user message of a sendMessage call
UserRowOf(call) ==
  {r \in DOMAIN dbMessages :
     /\ dbMessages[r].id = call.stored
     /\ dbMessages[r].role = "user"
     /\ dbMessages[r].content = call.input
     /\ dbMessages[r].thread_id = call.targetThreadId}

\* C12: at most one turn is in flight: a submission that arrives after an earlier
\* submission has started and before that earlier turn has ended is rejected, which
\* means that it creates no thread, persists no message and issues no request.
C12_OverlappingSubmissionRejected ==
  \A i \in DOMAIN sends :
    sends[i].overlaps =>
      /\ sends[i].created = NoThread
      /\ sends[i].stored = 0
      /\ sends[i].requested = 0

\* C17: a submission in a fresh conversation has its thread created before its user
\* message is stored; in every turn the user message is in the store before the
\* first request is issued; and a submission in a conversation that has a thread
\* creates no thread.
C17_ThreadThenMessageThenRequest ==
  \A i \in DOMAIN sends :
    /\ sends[i].stored # 0 =>
         /\ sends[i].targetThreadId \in DOMAIN threads
         /\ sends[i].currentThreadId = NoThread =>
              /\ sends[i].created = sends[i].targetThreadId
              /\ threads[sends[i].created].updated_at <= now
         /\ UserRowOf(sends[i]) # {}
    /\ sends[i].requested # 0 =>
         /\ sends[i].stored # 0
         /\ UserRowOf(sends[i]) # {}
         /\ sends[i].requested \in DOMAIN requests
    /\ sends[i].currentThreadId # NoThread =>
         /\ sends[i].created = NoThread
         /\ sends[i].targetThreadId = sends[i].currentThreadId

\* a first submission made its thread and a later one used it, and both have issued
\* their first request
C17_FreshAndLaterSubmission ==
  \E i, j \in DOMAIN sends :
    /\ sends[i].currentThreadId = NoThread /\ sends[i].created # NoThread
    /\ sends[i].requested # 0
    /\ sends[j].currentThreadId = sends[i].created
    /\ sends[j].requested # 0


(***************************************************************************)
(* Properties of the conversation store.                                   *)
(***************************************************************************)
\* C14: under any interleaving of deleteThread with the addMessage calls of a turn
\* in flight, the thread_id of every stored message is the id of a thread that
\* exists, so that after deleteThread(id) no message of thread id exists.
C14_NoOrphanMessage ==
  \A r \in DOMAIN dbMessages : dbMessages[r].thread_id \in DOMAIN threads

\* C16: addMessage is atomic: a call whose save of the database fails leaves neither
\* the row nor the change of updated_at behind.
C16_FailedAppendLeavesNothing ==
  [][(lastMessageId' # lastMessageId /\ ~op'.ok)
       => (dbMessages' = dbMessages /\ threads' = threads)]_vars

\* C19: changing the title of a thread, rebinding its agent and appending a message
\* to it each set its updated_at to the time of the call, which is not earlier than
\* the value it had.
C19_WritesRefreshUpdatedAt ==
  [][\A id \in DOMAIN threads \cap DOMAIN threads' :
       (\/ threads'[id].title # threads[id].title
        \/ threads'[id].agent_id # threads[id].agent_id
        \/ (lastMessageId' # lastMessageId /\ op'.id = id))
       => (/\ threads'[id].updated_at = now
           /\ threads'[id].updated_at >= threads[id].updated_at)]_vars

\* C20: the list of threads holds every thread exactly once, in the order of
\* non-increasing updated_at, and a thread whose last write is a message later than
\* the last write of every other thread is the first of the list.
C20_ListThreadsOrder ==
  op.name = "getThreads" =>
    LET l == op.listing IN
      /\ Len(l) = Cardinality(DOMAIN threads)
      /\ \A id \in DOMAIN threads : Cardinality({i \in DOMAIN l : l[i] = id}) = 1
      /\ \A i, j \in DOMAIN l : i < j => threads[l[i]].updated_at >= threads[l[j]].updated_at
      /\ \A id \in DOMAIN threads :
           (/\ writes[id].message
            /\ \A other \in DOMAIN threads \ {id} : writes[other].at < writes[id].at)
           => l[1] = id

\* two threads are listed, the one made first ahead of the other because a message
\* was appended to it after the other was made
C20_MessagedThreadFirst ==
  /\ op.name = "getThreads"
  /\ op.listing = <<1, 2>>
  /\ writes[1].message
  /\ writes[2].at < writes[1].at


(***************************************************************************)
(* Properties of the agent picker and of loadThreadData.                   *)
(***************************************************************************)
\* C18: once an agent is deleted, every read of a thread whose agent_id still names
\* it resolves the agent of the thread to no agent: the selected agent is null
\* after the read, whichever agent was selected before.
C18_DanglingAgentReadsAsNone ==
  (/\ op.name \in {"loadThreadData", "loadThreadDataBackend"}
   /\ op.id \in DOMAIN threads
   /\ threads[op.id].agent_id # NoAgent
   /\ threads[op.id].agent_id \notin DOMAIN agents)
  => selectedAgent = NoAgent


(***************************************************************************)
(* Properties of the message history.                                      *)
(***************************************************************************)
IsPrefix(a, b) == Len(a) <= Len(b) /\ SubSeq(b, 1, Len(a)) = a

\* C15: the history of a thread is append-only: whatever calls other than the
\* deletion of the thread were made, the list of its messages holds every message
\* ever appended to it, in the order of the appends, and every list given earlier
\* is a prefix of it.
C15_ListingIsAppendOnly ==
  [][op'.name = "getThreadMessages"
       => (/\ op'.listing = writes'[op'.id].appended
           /\ IsPrefix(writes[op'.id].listed, op'.listing))]_vars


(***************************************************************************)
(* Properties of a turn the user has left.                                 *)
(***************************************************************************)
\* C13: once the caller has cancelled a turn in flight by navigating away, the
\* consumption of the stream stops, no further delta is delivered, and no
\* assistant message of the turn is persisted afterwards.
C13_NothingAfterNavigation ==
  [][op.name = "handleNewThread"
       => (/\ pc = "streaming" => (body' = body /\ acc' = acc)
           /\ dbMessages' = dbMessages)]_vars

(***************************************************************************)
(* One response stream, frame by frame, in the two clients of App.tsx: the *)
(* one that calls the model itself and stores the conversation (its read   *)
(* loop is ReadFrame, StreamEndsWithTools and StreamEndsFinal above) and   *)
(* the one that posts to the /chat endpoint of the backend (below).        *)
(***************************************************************************)
MaxFrames == 4

\* useState<'instant' | 'low' | 'medium' | 'high'>
Levels == {"instant", "low", "medium", "high"}

\* the deltas a data: line may hold: reasoning text, answer text, both, the fragment
\* that opens a tool call (an id, a name and argument text beside them), a frame
\* whose tool_calls holds two such entries, and two fragments of argument text with
\* no id
FrameKinds ==
  {Delta("r", "", <<>>), Delta("", "a", <<>>), Delta("r", "a", <<>>),
   Delta("", "", <<ToolCallFragment(1, TRUE, "calc", "z")>>),
   Delta("", "", <<ToolCallFragment(1, TRUE, "calc", "z"),
                   ToolCallFragment(2, TRUE, "get_current_date", "")>>),
   Delta("", "", <<ToolCallFragment(0, TRUE, "", ArgPiece)>>),
   Delta("", "", <<ToolCallFragment(0, TRUE, "", "y")>>)}

FrameSeqs == UNION {[1..n -> FrameKinds] : n \in 0..MaxFrames}

\* let assistantContent = ''; ... let reasoningEndTime = null, and const startTime
InitAccBackend(t) ==
  [assistantContent |-> "", assistantReasoning |-> "",
   reasoningStartTime |-> Undefined, reasoningEndTime |-> Undefined, startTime |-> t]

\* a reasoning test that lets the text of every level through; C23_InstantShowsNoReasoning
\* tells it apart
TakesReasoningBackend_Mutant(delta, level) == delta.reasoning_content # ""

\* delta.reasoning_content && reasoningLevel !== 'instant'
TakesReasoningBackend(delta, level) ==
  delta.reasoning_content # "" /\ level # "instant"

AccReasoningBackend(a, delta, level, t) ==
  IF TakesReasoningBackend(delta, level)
  THEN [a EXCEPT !.reasoningStartTime = IF @ = Undefined THEN t ELSE @,
                 !.assistantReasoning = @ \o delta.reasoning_content]
  ELSE a

AccumulateBackend(a, delta, level, t) ==
  AccContent(AccReasoningBackend(a, delta, level, t), delta, t)

\* !lastMsg.reasoning_content
NoReasoningText(m) == m.reasoning_content \in {"", "<undefined>"}

\* the two setMessages updaters of one frame: the elapsed time is written only to a
\* message with no reasoning text, and reasoningEndTime is written nowhere
ShowDeltaBackend(ms, a, delta, level, t) ==
  IF ms = <<>> \/ Last(ms).role # "assistant" THEN ms
  ELSE LET a1 == AccReasoningBackend(a, delta, level, t)
           a2 == AccContent(a1, delta, t)
           m1 == [Last(ms) EXCEPT !.reasoning_content =
                    IF TakesReasoningBackend(delta, level)
                    THEN a1.assistantReasoning ELSE @]
       IN  [ms EXCEPT ![Len(ms)] =
             IF delta.content = "" THEN m1
             ELSE [m1 EXCEPT !.content = a2.assistantContent,
                             !.metrics = IF NoReasoningText(m1)
                                         THEN Metrics(t - a.startTime) ELSE @]]

\* the setMessages updater after the read loop:
\* !lastMsg.metrics?.reasoningDurationMs && !lastMsg.reasoning_content
ShowEndBackend(ms, a, t) ==
  IF ms = <<>> \/ Last(ms).role # "assistant" THEN ms
  ELSE IF /\ ~(Last(ms).metrics.present
               /\ Last(ms).metrics.reasoningDurationMs \notin {Undefined, 0})
          /\ NoReasoningText(Last(ms))
       THEN [ms EXCEPT ![Len(ms)].metrics = Metrics(t - a.startTime)]
       ELSE ms

\* reader.read() hands over the next frame of the body of /chat
ReadFrameBackend ==
  /\ pc = "backend"
  /\ body # <<>>
  /\ LET delta == Head(body) IN
       /\ acc' = AccumulateBackend(acc, delta, reasoningLevel, now)
       /\ messages' = ShowDeltaBackend(messages, acc, delta, reasoningLevel, now)
  /\ body' = Tail(body)
  /\ now' = now + 1
  /\ UNCHANGED <<isLoading, currentThreadId, reasoningLevel>>
  /\ UNCHANGED storeVars
  /\ UNCHANGED <<pc, threadId, iteration, msgs, toolOutputs, toolIdx>>
  /\ UNCHANGED <<requests, bodies, respOk, signal, turnEnd, turns, othersLeft,
                 callsOpened>>
  /\ UNCHANGED sideVars

\* the stream of /chat ends: the last updater, then the finally block of sendMessage
StreamEndsBackend ==
  /\ pc = "backend"
  /\ body = <<>>
  /\ messages' = ShowEndBackend(messages, acc, now)
  /\ isLoading' = FALSE
  /\ pc' = "backend done"
  /\ signal' = "resolved"
  /\ turnEnd' = "finalized"
  /\ now' = now + 1
  /\ UNCHANGED <<currentThreadId, reasoningLevel>>
  /\ UNCHANGED storeVars
  /\ UNCHANGED <<threadId, iteration, msgs, acc, toolOutputs, toolIdx>>
  /\ UNCHANGED <<requests, bodies, respOk, turns, othersLeft, body, callsOpened>>
  /\ UNCHANGED sideVars

\* the first request of a turn on a new thread has been answered with a body: the
\* state ResponseBody leaves, for either client, every level and every body
InitFrames ==
  /\ messages = <<UserMessage("hola"), Placeholder>>
  /\ isLoading = TRUE
  /\ currentThreadId = 1
  /\ reasoningLevel \in Levels
  /\ threads = createThread(<<>>, 1, "hola", NoAgent, 1)
  /\ dbMessages = <<Row(1, DBMessage(1, "user", "hola", "<undefined>", NoMetrics))>>
  /\ lastThreadId = 1
  /\ lastMessageId = 1
  /\ pc \in {"streaming", "backend"}
  /\ threadId = 1
  /\ iteration = 1
  /\ msgs = ContextMessages(<<UserMessage("hola")>>)
  /\ now = 4
  /\ acc = IF pc = "streaming" THEN InitAcc ELSE InitAccBackend(3)
  /\ toolOutputs = <<>>
  /\ toolIdx = 0
  /\ requests = <<MessagesPayload(msgs)>>
  /\ body \in FrameSeqs
  /\ bodies = <<body>>
  /\ respOk = TRUE
  /\ signal = "pending"
  /\ turnEnd = "running"
  /\ turns = 1
  /\ othersLeft = MaxOtherCalls
  /\ callsOpened = 0
  /\ ReaderOff /\ ToolsOff /\ CallsOff /\ StoreOff /\ ViewOff /\ InstancesOff

NextFrames ==
  \/ ReadFrame
  \/ StreamEndsWithTools
  \/ StreamEndsFinal
  \/ ToolArgumentsThrow
  \/ \E result \in UNION {executeTool(n) : n \in ToolNames} : ToolRuns(result)
  \/ ReadFrameBackend
  \/ StreamEndsBackend

SpecFrames == InitFrames /\ [][NextFrames]_vars

\* the frames of the body read so far
Consumed == SubSeq(bodies[1], 1, Len(bodies[1]) - Len(body))

LeastOf(S) == CHOOSE x \in S : \A y \in S : x <= y

\* the read loop is over and the message of the stream is final
StreamEnded == pc \in {"idle", "tools", "loop", "backend done"}

\* the message of the stream on screen: the placeholder after the user message
StreamMessage == messages[2]

\* the message the stream ends in: the row addMessage stored after the row of the
\* user message, or, with the backend storing the conversation, the message on
\* screen
FinalMessage == IF pc = "backend done" THEN StreamMessage ELSE dbMessages[2]

\* metrics.reasoningDurationMs holds a number
HasDuration(m) == m.metrics.present /\ m.metrics.reasoningDurationMs # Undefined

\* C21: at a level above the suppressing ones, once an answer fragment has come
\* after reasoning began, the message in progress carries the duration from the
\* first reasoning fragment to that answer fragment (frames are one tick apart), it
\* carries none before, later fragments leave it, and the final message carries it
C21_DurationSetAtFirstAnswer ==
  reasoningLevel \in {"medium", "high"} =>
    LET fs == Consumed
        rs == {i \in 1..Len(fs) : fs[i].reasoning_content # ""}
    IN  rs # {} =>
          LET i == LeastOf(rs)
              as == {j \in i..Len(fs) : fs[j].content # ""}
          IN  /\ (as = {} /\ ~StreamEnded) => ~HasDuration(StreamMessage)
              /\ as # {} => StreamMessage.metrics = Metrics(LeastOf(as) - i)
              /\ (as # {} /\ StreamEnded) =>
                    FinalMessage.metrics = Metrics(LeastOf(as) - i)

\* C22: at a level above the suppressing ones, a body with reasoning fragments and
\* no answer fragment ends in a final message whose reasoning duration is a number:
\* the time from the first reasoning fragment to the end of the stream
C22_DurationCapturedAtStreamEnd ==
  (reasoningLevel \in {"medium", "high"} /\ StreamEnded) =>
    LET fs == bodies[1]
        rs == {i \in 1..Len(fs) : fs[i].reasoning_content # ""}
    IN  (rs # {} /\ \A j \in 1..Len(fs) : fs[j].content = "") =>
          /\ HasDuration(FinalMessage)
          /\ FinalMessage.metrics.reasoningDurationMs = Len(fs) + 1 - LeastOf(rs)

\* C23: at level instant the reasoning buffer stays empty and no reasoning text
\* reaches the message on screen or a stored message
C23_InstantShowsNoReasoning ==
  reasoningLevel = "instant" =>
    /\ acc.assistantReasoning = ""
    /\ \A i \in 1..Len(messages) : NoReasoningText(messages[i])
    /\ \A i \in 1..Len(dbMessages) : dbMessages[i].reasoning_content = "<null>"

\* a stream with reasoning fragments has been read to its end at level instant
C23_InstantStreamWithReasoning ==
  /\ reasoningLevel = "instant"
  /\ pc = "backend done"
  /\ \E i \in 1..Len(bodies[1]) : bodies[1][i].reasoning_content # ""
  /\ \E i \in 1..Len(bodies[1]) : bodies[1][i].content # ""

\* C24: at level instant the final message of a completed turn carries the time
\* elapsed since the request started: up to the last answer fragment, or up to the
\* end of the stream when there is none (the request is one tick before the first
\* frame and frames are one tick apart)
C24_InstantCarriesElapsedTime ==
  (reasoningLevel = "instant" /\ turnEnd = "finalized") =>
    LET fs == bodies[1]
        as == {j \in 1..Len(fs) : fs[j].content # ""}
    IN  /\ HasDuration(FinalMessage)
        /\ FinalMessage.metrics.reasoningDurationMs =
             IF as = {} THEN Len(fs) + 1 ELSE CHOOSE j \in as : \A k \in as : k <= j

\* the fragments of fs after position lo and before position hi that carry no id,
\* their argument texts in order
RECURSIVE ArgsBetween(_, _, _)
ArgsBetween(fs, lo, hi) ==
  IF lo + 1 >= hi THEN ""
  ELSE LET d == fs[lo + 1] IN
       (IF d.tool_calls # <<>> /\ d.tool_calls[1].id = 0
        THEN d.tool_calls[1].arguments ELSE "")
       \o ArgsBetween(fs, lo + 1, hi)

\* C30: after every prefix of a body there is one descriptor per fragment with an
\* id, in order, with the name of that fragment, and its argument text is the texts
\* of the id-less fragments between that fragment and the next one with an id, in
\* order; the argument text beside the id and id-less fragments before the first id
\* are in no descriptor
C30_ToolCallAccumulation ==
  pc \in {"streaming", "tools", "idle"} =>
    LET fs == Consumed
        opens == {i \in 1..Len(fs) : OpensCall(fs[i])}
        nth(k) == CHOOSE i \in opens : Cardinality({j \in opens : j <= i}) = k
        calls == acc.toolCallsArgs
    IN  /\ Len(calls) = Cardinality(opens)
        /\ \A k \in 1..Len(calls) :
             /\ calls[k].id = fs[nth(k)].tool_calls[1].id
             /\ calls[k].name = fs[nth(k)].tool_calls[1].name
             /\ calls[k].arguments =
                  ArgsBetween(fs, nth(k),
                              IF k = Len(calls) THEN Len(fs) + 1 ELSE nth(k + 1))

\* an id-less fragment, a call with one argument fragment, then a second call
C30_TwoCallsAfterStrayFragment ==
  /\ pc = "tools"
  /\ Len(acc.toolCallsArgs) = 2
  /\ acc.toolCallsArgs[1].arguments = ArgPiece
  /\ acc.toolCallsArgs[2].arguments = ""
  /\ ~OpensCall(bodies[1][1]) /\ bodies[1][1].tool_calls # <<>>


(***************************************************************************)
(* The title of a thread made by the first message.                        *)
(***************************************************************************)
MaxWords == 6

Words == {"a", "abcdefgh"}
WordLists == UNION {[1..n -> Words] : n \in 1..MaxWords}

\* what may be typed: words with one space between them, words with spaces before,
\* after and doubled between them, a sentence, and a blank text
TitleInputs ==
  {Join(ws, " ") : ws \in WordLists}
  \cup {" " \o Join(ws, "  ") \o "  " : ws \in {w \in WordLists : Len(w) <= 3}}
  \cup {"Can you help me plan a trip to Japan next spring", "  "}

NextTitle == \E input \in TitleInputs : Submit(input)

SpecTitle == Init /\ [][NextTitle]_vars

\* the text between the first and the last character of s that is not a space
Trimmed(s) ==
  LET inked == {i \in 1..Len(s) : SubSeq(s, i, i) # " "} IN
  IF inked = {} THEN ""
  ELSE SubSeq(s, CHOOSE i \in inked : \A j \in inked : i <= j,
                 CHOOSE i \in inked : \A j \in inked : j <= i)

\* the text of w before its fifth space, all of w when it has fewer
UpToFifthSpace(w) ==
  LET spaces == {i \in 1..Len(w) : SubSeq(w, i, i) = " "} IN
  IF Cardinality(spaces) < TitleWords THEN w
  ELSE SubSeq(w, 1, (CHOOSE i \in spaces :
                       Cardinality({j \in spaces : j <= i}) = TitleWords) - 1)

\* C27: the title of a thread made by the first message is the first five
\* space-separated words of the message, cut to 30 characters and an ellipsis marker
\* when they are longer than 30 characters, and it is never empty
C27_TitleOfNewThread ==
  currentThreadId # NoThread =>
    LET p == UpToFifthSpace(Trimmed(messages[1].content))
        title == threads[currentThreadId].title
    IN  /\ title = IF Len(p) > TitleLimit THEN SubSeq(p, 1, TitleLimit) \o "..." ELSE p
        /\ title # ""

\* a thread made by a message of more than five words whose first five are longer
\* than 30 characters
C27_LongTitleCut ==
  /\ currentThreadId # NoThread
  /\ Len(SplitText(messages[1].content)) > TitleWords
  /\ Len(threads[currentThreadId].title) = TitleLimit + 3

TripMessage == "Can you help me plan a trip to Japan next spring"

\* C28 as stated: the first message "Can you help me plan a trip to Japan next
\* spring" gives the title "Can you help me" followed by an ellipsis marker
C28_TripTitleIsFourWordsCut ==
  (currentThreadId # NoThread /\ messages[1].content = TripMessage) =>
    threads[currentThreadId].title = "Can you help me" \o "..."

\* C28, amended: the first message "Can you help me plan a trip to Japan next
\* spring" gives the title "Can you help me plan", its first five words, with no
\* marker: they are 20 characters
C28_TripTitleIsFiveWords ==
  (currentThreadId # NoThread /\ messages[1].content = TripMessage) =>
    threads[currentThreadId].title = "Can you help me plan"

\* the thread of the message about the trip exists
C28_TripThreadMade ==
  /\ currentThreadId # NoThread
  /\ messages[1].content = TripMessage
  /\ threads[currentThreadId].title # ""


(***************************************************************************)
(* groupedMessages: what App renders of the visible history.  An entry of  *)
(* groups is a message object of its own or, were it not copied, the very  *)
(* object of the history: alias is the place in the history of the object  *)
(* an entry is, 0 for an object of its own, and a write to an entry that   *)
(* is an object of the history changes the history.                        *)
(***************************************************************************)
MaxShown == 4
MaxRenders == 2

\* the messages a history may hold: typed ones, answers with and without reasoning
\* and a duration (an answer at level instant carries the elapsed time and no
\* reasoning), and the tool and system rows a stored thread may return
ShownKinds ==
  {UserMessage("hola"), UserMessage("otro"),
   [role |-> "assistant", content |-> "a", reasoning_content |-> "r",
    metrics |-> Metrics(2)],
   [role |-> "assistant", content |-> "b", reasoning_content |-> "<undefined>",
    metrics |-> NoMetrics],
   [role |-> "assistant", content |-> "", reasoning_content |-> "s",
    metrics |-> Metrics(3)],
   [role |-> "assistant", content |-> "c", reasoning_content |-> "",
    metrics |-> Metrics(5)],
   Placeholder,
   [role |-> "tool", content |-> "t", reasoning_content |-> "<undefined>",
    metrics |-> NoMetrics],
   [role |-> "system", content |-> SystemText, reasoning_content |-> "<undefined>",
    metrics |-> NoMetrics]}

Histories == UNION {[1..n -> ShownKinds] : n \in 0..MaxShown}

\* a text that is neither absent nor empty
Truthy(text) == text \notin {"", "<undefined>"}

\* { content, durationMs: metrics?.reasoningDurationMs }
Part(m) ==
  [content |-> m.reasoning_content,
   durationMs |-> IF m.metrics.present THEN m.metrics.reasoningDurationMs
                  ELSE Undefined]

\* an entry that is the object of the history itself; C26_ProjectionIsPure tells
\* it apart
CopyOf_Mutant(msg, i) ==
  [role |-> msg.role, content |-> msg.content,
   reasoning_content |-> msg.reasoning_content, metrics |-> msg.metrics,
   hasParts |-> FALSE, reasoning_parts |-> <<>>, alias |-> i]

\* const newMsg = { ...msg }: an object of its own, with no reasoning_parts yet
CopyOf(msg, i) ==
  [role |-> msg.role, content |-> msg.content,
   reasoning_content |-> msg.reasoning_content, metrics |-> msg.metrics,
   hasParts |-> FALSE, reasoning_parts |-> <<>>, alias |-> 0]

\* the message object an entry is, as the history shows it
AsMessage(g) ==
  IF g.hasParts
  THEN [role |-> g.role, content |-> g.content,
        reasoning_content |-> g.reasoning_content, metrics |-> g.metrics,
        reasoning_parts |-> g.reasoning_parts]
  ELSE [role |-> g.role, content |-> g.content,
        reasoning_content |-> g.reasoning_content, metrics |-> g.metrics]

\* entry k of groups becomes g
WriteGroup(st, k, g) ==
  [groups |-> IF k > Len(st.groups) THEN Append(st.groups, g)
              ELSE [st.groups EXCEPT ![k] = g],
   input  |-> IF g.alias = 0 THEN st.input
              ELSE [st.input EXCEPT ![g.alias] = AsMessage(g)]]

\* a merge that keeps empty answer texts; C25_ProjectionGroupsRuns tells it apart
MergeContent_Mutant(a, b) == a \o "\n\n" \o b

\* [lastGroup.content, msg.content].filter(Boolean).join('\n\n')
MergeContent(a, b) ==
  IF a = "" THEN b ELSE IF b = "" THEN a ELSE a \o "\n\n" \o b

\* reasoning_parts.map(p => p.content).filter(Boolean).join('\n\n---\n\n')
RECURSIVE JoinParts(_)
JoinParts(parts) ==
  IF parts = <<>> THEN ""
  ELSE LET rest == JoinParts(Tail(parts)) IN
       IF ~Truthy(Head(parts).content) THEN rest
       ELSE IF rest = "" THEN Head(parts).content
       ELSE Head(parts).content \o "\n\n---\n\n" \o rest

\* reasoning_parts.reduce((acc, p) => acc + (p.durationMs || 0), 0)
RECURSIVE TotalDuration(_)
TotalDuration(parts) ==
  IF parts = <<>> THEN 0
  ELSE (IF Head(parts).durationMs = Undefined THEN 0 ELSE Head(parts).durationMs)
       + TotalDuration(Tail(parts))

\* the then branch: msg is merged into lastGroup
MergeInto(g, msg) ==
  LET own   == IF g.hasParts THEN g.reasoning_parts
               ELSE IF Truthy(g.reasoning_content) THEN <<Part(g)>> ELSE <<>>
      parts == IF Truthy(msg.reasoning_content) THEN Append(own, Part(msg)) ELSE own
      total == TotalDuration(parts)
  IN  [g EXCEPT !.hasParts = TRUE,
                !.reasoning_parts = parts,
                !.content = MergeContent(g.content, msg.content),
                !.reasoning_content = JoinParts(parts),
                !.metrics = Metrics(IF total > 0 THEN total ELSE Undefined)]

\* the else branch: a new entry for msg
NewGroup(msg, i) ==
  LET newMsg == CopyOf(msg, i) IN
  IF Truthy(newMsg.reasoning_content) /\ ~newMsg.hasParts
  THEN [newMsg EXCEPT !.hasParts = TRUE, !.reasoning_parts = <<Part(newMsg)>>]
  ELSE newMsg

\* one turn of the for loop, for the message at place i of the history
GroupStep(st, i) ==
  LET msg == st.input[i] IN
  IF msg.role \in {"system", "tool"} THEN st
  ELSE IF /\ st.groups # <<>>
          /\ Last(st.groups).role = "assistant" /\ msg.role = "assistant"
       THEN WriteGroup(st, Len(st.groups), MergeInto(Last(st.groups), msg))
       ELSE WriteGroup(st, Len(st.groups) + 1, NewGroup(msg, i))

RECURSIVE GroupFrom(_, _)
GroupFrom(st, i) ==
  IF i > Len(st.input) THEN st ELSE GroupFrom(GroupStep(st, i), i + 1)

\* the callback of useMemo run on ms: the entries it returns and the history after it
Grouped(ms) == GroupFrom([groups |-> <<>>, input |-> ms], 1)

\* App renders: the callback of useMemo runs on the history
Render ==
  /\ renders < MaxRenders
  /\ LET st == Grouped(messages) IN
       /\ groupedMessages' = st.groups
       /\ messages' = st.input
  /\ renders' = renders + 1
  /\ UNCHANGED <<isLoading, currentThreadId, reasoningLevel>>
  /\ UNCHANGED <<storeVars, turnVars, envVars, readerVars, toolVars, callVars, apiVars,
                 instVars>>

\* a history is on screen, loaded or left by earlier turns, and no turn runs
InitGroups ==
  /\ messages \in Histories
  /\ isLoading = FALSE
  /\ currentThreadId = NoThread
  /\ reasoningLevel = "medium"
  /\ threads = <<>>
  /\ dbMessages = <<>>
  /\ lastThreadId = 0
  /\ lastMessageId = 0
  /\ pc = "idle"
  /\ threadId = NoThread
  /\ iteration = 0
  /\ msgs = <<>>
  /\ acc = InitAcc
  /\ toolOutputs = <<>>
  /\ toolIdx = 0
  /\ now = 1
  /\ requests = <<>>
  /\ bodies = <<>>
  /\ respOk = TRUE
  /\ signal = "none"
  /\ turnEnd = "none"
  /\ turns = 0
  /\ othersLeft = MaxOtherCalls
  /\ body = <<>>
  /\ callsOpened = 0
  /\ ReaderOff /\ ToolsOff /\ CallsOff /\ StoreOff /\ ViewOff /\ InstancesOff

NextGroups == Render

SpecGroups == InitGroups /\ [][NextGroups]_vars

\* the messages of ms that are neither system nor tool messages
Conversational(ms) == SelectSeq(ms, LAMBDA m : m.role \notin {"system", "tool"})

\* v cut into its maximal runs of assistant messages and its single user messages
RECURSIVE Runs(_)
Runs(v) ==
  IF v = <<>> THEN <<>>
  ELSE LET before == Runs(SubSeq(v, 1, Len(v) - 1))
           m == Last(v)
       IN  IF /\ before # <<>>
              /\ m.role = "assistant" /\ Last(Last(before)).role = "assistant"
           THEN [before EXCEPT ![Len(before)] = Append(@, m)]
           ELSE Append(before, <<m>>)

\* the non-empty texts field picks out of the messages of run, in order
TextsOf(run, field(_)) ==
  LET kept == SelectSeq(run, LAMBDA m : Truthy(field(m)))
  IN  [k \in 1..Len(kept) |-> field(kept[k])]

ContentOf(m) == m.content
ReasoningOf(m) == m.reasoning_content

\* C25: what is rendered holds no system or tool entry and no two assistant entries
\* in a row; it holds one entry per maximal run of assistant messages (system and
\* tool messages between them ignored), whose content is the non-empty answer texts
\* of the run joined by a blank line and whose reasoning segments are the reasoning
\* texts of the run in order; and the user messages, unchanged, in their order
C25_ProjectionGroupsRuns ==
  renders > 0 =>
    LET runs == Runs(Conversational(messages))
        out == groupedMessages
    IN  /\ \A k \in 1..Len(out) : out[k].role \notin {"system", "tool"}
        /\ \A k \in 1..Len(out) - 1 :
             ~(out[k].role = "assistant" /\ out[k + 1].role = "assistant")
        /\ Len(out) = Len(runs)
        /\ \A k \in 1..Len(out) :
             IF runs[k][1].role = "assistant"
             THEN /\ out[k].role = "assistant"
                  /\ out[k].content = Join(TextsOf(runs[k], ContentOf), "\n\n")
                  /\ [j \in 1..Len(out[k].reasoning_parts) |->
                        out[k].reasoning_parts[j].content]
                     = TextsOf(runs[k], ReasoningOf)
             ELSE AsMessage(out[k]) = runs[k][1]

\* a run of three assistant messages around a tool message, between two user
\* messages, has been rendered as one entry
C25_RunAcrossToolMessage ==
  /\ renders > 0
  /\ Len(messages) = MaxShown
  /\ messages[1].role = "assistant" /\ messages[2].role = "tool"
  /\ messages[3].role = "assistant" /\ messages[4].role = "user"
  /\ Len(groupedMessages) = 2
  /\ Len(groupedMessages[1].reasoning_parts) = 2

\* C26: rendering leaves every message of the history as it was (content, reasoning
\* text, metrics, no reasoning_parts added), and rendering the same history again
\* gives the same entries
C26_ProjectionIsPure ==
  [][renders' = renders + 1 =>
       /\ messages' = messages
       /\ renders > 0 => groupedMessages' = groupedMessages]_vars

\* a history with two assistant messages in a row has been rendered twice
C26_MergedTwice ==
  /\ renders = MaxRenders
  /\ \E i \in 1..Len(messages) - 1 :
       messages[i].role = "assistant" /\ messages[i + 1].role = "assistant"
  /\ Len(groupedMessages) < Len(messages)


(***************************************************************************)
(* A turn on a thread that already holds a conversation: what each request *)
(* of the turn carries of it.                                              *)
(***************************************************************************)
MaxHistory == 12
MaxSwitchThreads == 3

\* the content of the i-th message of the conversation so far
HistoryText(i) == "m" \o ToString(i)

\* the rows of a thread of n messages, typed and answered in turn
HistoryRows(n) ==
  [i \in 1..n |->
     Row(i, DBMessage(1, IF i % 2 = 1 THEN "user" ELSE "assistant", HistoryText(i),
                      "<undefined>", NoMetrics))]

\* the bodies the server answers with: an answer, one call of get_current_date,
\* and an answer followed by such a call
WindowBodies ==
  {<<Delta("", "a", <<>>)>>,
   CallFrames(1, "get_current_date", "", 1),
   <<Delta("", "a", <<>>)>> \o CallFrames(1, "get_current_date", "", 1)}

\* the thread of a conversation of up to MaxHistory messages is open, loaded by
\* loadThreadData, and nothing has been typed yet; with no message, the state of Init
InitWindow ==
  /\ \E n \in 0..MaxHistory :
       /\ dbMessages = HistoryRows(n)
       /\ messages = [i \in 1..n |-> ShownRow(dbMessages[i])]
       /\ lastMessageId = n
       /\ currentThreadId = IF n = 0 THEN NoThread ELSE 1
       /\ lastThreadId = IF n = 0 THEN 0 ELSE 1
       /\ threads = IF n = 0 THEN <<>> ELSE createThread(<<>>, 1, "m1", NoAgent, 1)
  /\ isLoading = FALSE
  /\ reasoningLevel \in ReasoningLevels
  /\ pc = "idle"
  /\ threadId = NoThread
  /\ iteration = 0
  /\ msgs = <<>>
  /\ acc = InitAcc
  /\ toolOutputs = <<>>
  /\ toolIdx = 0
  /\ now = 1
  /\ requests = <<>>
  /\ bodies = <<>>
  /\ respOk = TRUE
  /\ signal = "none"
  /\ turnEnd = "none"
  /\ turns = 0
  /\ othersLeft = MaxOtherCalls
  /\ body = <<>>
  /\ callsOpened = 0
  /\ ReaderOff /\ ToolsOff /\ CallsOff /\ StoreOff /\ ViewOff /\ InstancesOff

NextWindow ==
  \/ Submit("hola")
  \/ IssueRequest
  \/ BudgetExhausted
  \/ \E b \in WindowBodies : ResponseBody(TRUE, WithIds(b, callsOpened))
  \/ ReadFrame
  \/ StreamEndsWithTools
  \/ StreamEndsFinal
  \/ ToolRuns(DateText)

SpecWindow == InitWindow /\ [][NextWindow]_vars

\* the place in the visible history of the message typed in this turn: the last
\* one typed
Typed ==
  LET typed == {i \in 1..Len(messages) :
                  messages[i].role = "user" /\ messages[i].content = "hola"}
  IN  CHOOSE i \in typed : \A j \in typed : j <= i

\* C29: every request of a turn carries one system message, then the latest
\* messages of the conversation up to and with the one just typed, ten at most and
\* in their order, then only assistant messages with tool calls and tool results of
\* this turn
C29_RequestWindow ==
  \A k \in 1..Len(requests) :
    LET r == requests[k]
        n == IF Typed <= ContextWindow THEN Typed ELSE ContextWindow
    IN  /\ r[1] = SystemMessage
        /\ \A j \in 2..Len(r) : r[j].role # "system"
        /\ Len(r) >= n + 1
        /\ \A j \in 1..n : r[j + 1] = FromVisible(messages[Typed - n + j])
        /\ \A j \in n + 2..Len(r) :
             \/ /\ r[j].role = "assistant" /\ r[j].tool_calls # <<>>
                /\ \A c \in 1..Len(r[j].tool_calls) :
                     r[j].tool_calls[c].id \in 1..callsOpened
             \/ r[j].role = "tool" /\ r[j].tool_call_id \in 1..callsOpened

\* the third request of a turn on a conversation of more than ten messages
C29_LongHistoryThirdRequest ==
  /\ Len(requests) = 3
  /\ Typed > ContextWindow + 1
  /\ Len(requests[3]) = 1 + ContextWindow + 4


(***************************************************************************)
(* The placeholder of an iteration and the request of that iteration.      *)
(***************************************************************************)
\* C31: while the request of an iteration waits for its response the visible
\* history holds no placeholder for that iteration (one assistant entry for each
\* earlier iteration of the turn and no more), and a turn whose request failed
\* before a response came shows no empty assistant message
C31_PlaceholderAfterResponse ==
  /\ pc = "fetching" => Len(ShownOfTurn) = iteration - 1
  /\ turnEnd = "fetch rejected" =>
       \A i \in 1..Len(ShownOfTurn) :
          ~(ShownOfTurn[i].role = "assistant" /\ ShownOfTurn[i].content = "")


\* the duration a message carries, 0 when it carries none
DurationOf(m) ==
  IF m.metrics.present /\ m.metrics.reasoningDurationMs # Undefined
  THEN m.metrics.reasoningDurationMs ELSE 0

RECURSIVE SumDurations(_)
SumDurations(run) ==
  IF run = <<>> THEN 0 ELSE DurationOf(Head(run)) + SumDurations(Tail(run))

\* C32: an entry that several assistant messages were merged into carries the sum
\* of the durations of all of them, with or without reasoning text, and each of its
\* reasoning segments carries the duration of the message it came from
C32_MergedDurationIsSum ==
  renders > 0 =>
    LET runs == Runs(Conversational(messages))
        out == groupedMessages
    IN  \A k \in 1..Len(out) :
          Len(runs[k]) > 1 =>
            LET reasoned == SelectSeq(runs[k], LAMBDA m : Truthy(m.reasoning_content))
            IN  /\ DurationOf(out[k]) = SumDurations(runs[k])
                /\ Len(out[k].reasoning_parts) = Len(reasoned)
                /\ \A j \in 1..Len(reasoned) :
                     out[k].reasoning_parts[j].durationMs = Part(reasoned[j]).durationMs


(***************************************************************************)
(* Updates of the agent a thread is bound to.                              *)
(***************************************************************************)
\* C33: after a thread that exists is given the agent reference v, none included,
\* the thread reads agent_id = v with its title as before and every other thread
\* as before; and giving an agent reference to a thread that does not exist
\* changes nothing
C33_AgentUpdateLastWriteWins ==
  [][/\ \A id \in DOMAIN threads, v \in {NoAgent} \cup (1..MaxAgents) :
          UpdateThreadAgent(id, v) =>
            /\ threads'[id].agent_id = v
            /\ threads'[id].title = threads[id].title
            /\ \A other \in DOMAIN threads \ {id} : threads'[other] = threads[other]
     /\ \A id \in (1..MaxThreads) \ DOMAIN threads, v \in {NoAgent} \cup (1..MaxAgents) :
          updateThreadAgent(store, threads, id, v, now) = threads]_vars


(***************************************************************************)
(* The tool calls a stream announces and the tool calls that run.          *)
(***************************************************************************)
\* the entries of tool_calls, in all the frames of fs, that bear an id
RECURSIVE Announced(_)
Announced(fs) ==
  IF fs = <<>> THEN 0
  ELSE Cardinality({c \in 1..Len(Head(fs).tool_calls) : Head(fs).tool_calls[c].id # 0})
       + Announced(Tail(fs))

\* the rows of role tool in the store
ToolRows == SelectSeq(dbMessages, LAMBDA r : r.role = "tool")

\* C34: when the round of tools of an iteration is over, every tool call the stream
\* announced, every entry with an id of every frame, has run once and has one tool
\* message, stored and on the working list of the next request; and a stream that
\* announced a tool call does not end the turn as a final answer
C34_EveryAnnouncedCallRuns ==
  /\ (pc = "loop" /\ iteration > 0 /\ Len(bodies) = 1) =>
       /\ Len(ToolRows) = Announced(bodies[1])
       /\ Len(SelectSeq(msgs, LAMBDA m : m.role = "tool")) = Announced(bodies[1])
  /\ (pc = "idle" /\ turnEnd = "finalized" /\ Len(bodies) = 1) =>
       Announced(bodies[1]) = 0


(***************************************************************************)
(* A turn in flight while the user selects a thread, starts a new one or   *)
(* logs out.  Two threads of two messages each are stored; the turn is     *)
(* submitted on the first of them or on no thread.                         *)
(***************************************************************************)
\* the rows of the two stored threads
SwitchRows ==
  [i \in 1..4 |->
     Row(i, DBMessage(IF i <= 2 THEN 1 ELSE 2,
                      IF i % 2 = 1 THEN "user" ELSE "assistant", HistoryText(i),
                      "<undefined>", NoMetrics))]

\* handleLogout(): the history, the agent and the thread are cleared
handleLogout ==
  /\ currentThreadId' = NoThread
  /\ messages' = <<>>
  /\ selectedAgent' = NoAgent
  /\ op' = Call("handleLogout", NoThread, TRUE, <<>>)
  /\ UNCHANGED <<storeVars, agents, lastAgentId, writes>>
  /\ StoreFrame

\* the user acts while sendMessage is running: nothing disables the side bar
SwitchAway ==
  /\ pc # "idle"
  /\ \/ handleNewThread
     \/ handleLogout
     \/ \E id \in 1..MaxSwitchThreads : loadThreadData(id)

InitSwitch ==
  /\ dbMessages = SwitchRows
  /\ lastMessageId = 4
  /\ lastThreadId = 2
  /\ threads = createThread(createThread(<<>>, 1, "m1", NoAgent, 1), 2, "m3", NoAgent, 1)
  /\ currentThreadId \in {NoThread, 1}
  /\ messages = IF currentThreadId = NoThread THEN <<>>
                ELSE [i \in 1..2 |-> ShownRow(dbMessages[i])]
  /\ isLoading = FALSE
  /\ reasoningLevel \in ReasoningLevels
  /\ pc = "idle"
  /\ threadId = NoThread
  /\ iteration = 0
  /\ msgs = <<>>
  /\ acc = InitAcc
  /\ toolOutputs = <<>>
  /\ toolIdx = 0
  /\ now = 2
  /\ requests = <<>>
  /\ bodies = <<>>
  /\ respOk = TRUE
  /\ signal = "none"
  /\ turnEnd = "none"
  /\ turns = 0
  /\ othersLeft = MaxOtherCalls
  /\ body = <<>>
  /\ callsOpened = 0
  /\ ReaderOff /\ ToolsOff /\ CallsOff /\ StoreOff /\ ViewOff /\ InstancesOff

NextSwitch ==
  \/ Submit("hola")
  \/ IssueRequest
  \/ BudgetExhausted
  \/ FetchRejects
  \/ \E b \in WindowBodies : ResponseBody(TRUE, WithIds(b, callsOpened))
  \/ ReadFrame
  \/ StreamEndsWithTools
  \/ StreamEndsFinal
  \/ ToolRuns(DateText)
  \/ SwitchAway

SpecSwitch == InitSwitch /\ [][NextSwitch]_vars

\* a step of the read loop that takes one frame
ReadsFrame == pc = "streaming" /\ body # <<>> /\ body' = Tail(body)

\* the frame makes the loop call setMessages
Touches(delta, level) == TakesReasoning(delta, level) \/ delta.content # ""

\* lastMsg.role is read of newPrev[newPrev.length - 1], which is undefined for an
\* empty history: the updater throws when React runs it, outside the try block of
\* the loop
UpdaterThrows(ms, delta, level) == ms = <<>> /\ Touches(delta, level)

\* C35: whatever the user does while a turn is in flight, a frame changes nothing
\* but the placeholder of the running iteration, the last message of the history
\* that holds what the iteration has accumulated so far, and the update does not
\* fail on an empty history
C35_DeltaOnlyChangesPlaceholder ==
  [][ReadsFrame =>
       /\ ~UpdaterThrows(messages, Head(body), reasoningLevel)
       /\ messages' # messages =>
            /\ Last(messages).role = "assistant"
            /\ Last(messages).content = acc.assistantContent
            /\ Last(messages).reasoning_content = acc.assistantReasoning]_vars

\* the thread sendMessage takes as its target when it starts: the thread on screen,
\* or the thread it creates when there is none
SubmittedThread ==
  IF currentThreadId = NoThread THEN lastThreadId + 1 ELSE currentThreadId

\* C38: every row a turn stores (the user message, each assistant message, each tool
\* result) is appended under the thread that was the target when the submission
\* started, whatever thread is on screen by then, and the rows already stored, of
\* that thread and of every other one, are left as they were
C38_RowsGoToSubmittedThread ==
  [][/\ pc # "idle" => threadId' = threadId
     /\ dbMessages' # dbMessages =>
          /\ Len(dbMessages') = Len(dbMessages) + 1
          /\ SubSeq(dbMessages', 1, Len(dbMessages)) = dbMessages
          /\ Last(dbMessages').thread_id = threadId'
          /\ pc = "idle" => threadId' = SubmittedThread]_vars

\* a turn is over that stored a tool result and its final assistant message under
\* its own thread after the user had moved to another thread
C38_StoredAfterSwitch ==
  /\ turnEnd = "finalized"
  /\ currentThreadId \notin {threadId, NoThread}
  /\ Last(dbMessages).role = "assistant"
  /\ Last(dbMessages).thread_id = threadId
  /\ \E i \in 5..Len(dbMessages) :
       dbMessages[i].role = "tool" /\ dbMessages[i].thread_id = threadId
  /\ \A i \in 1..4 : dbMessages[i] = SwitchRows[i]

(***************************************************************************)
(* The database instance of the store modules.  Every store operation      *)
(* starts with getDB() (sql.js store) or getDb() (localSqlite), runs its   *)
(* statements on the database it got, and saves a snapshot of a database   *)
(* under the storage key with localforage.setItem.  A database is the set  *)
(* of the writes made on it; a call is named by its number and writes its  *)
(* number.  Each await is a point where other calls may run.               *)
(***************************************************************************)
MaxStoreCalls == 3

NewCall == [pc |-> "start", db |-> 0, loaded |-> {}]

\* a store operation that writes is called: addMessage, createThread, ...
StoreCall ==
  /\ Len(storeCalls) < MaxStoreCalls
  /\ storeCalls' = Append(storeCalls, NewCall)
  /\ UNCHANGED <<dbInstance, dbPromise, instances, durable, saves>>

\* getDB(): `if (dbInstance) return dbInstance;`, else the call goes on to
\* `await initSqlJs(...)`
getDB(c) ==
  /\ store = "db"
  /\ storeCalls[c].pc = "start"
  /\ storeCalls' = [storeCalls EXCEPT ![c] = IF dbInstance # 0
                                   THEN [@ EXCEPT !.pc = "run", !.db = dbInstance]
                                   ELSE [@ EXCEPT !.pc = "loading"]]
  /\ UNCHANGED <<dbInstance, dbPromise, instances, durable, saves>>

\* getDb(): the first call sets dbPromise and opens the database, every other call
\* gets the same promise
getDb(c) ==
  /\ store = "localSqlite"
  /\ storeCalls[c].pc = "start"
  /\ IF dbPromise = "null"
     THEN /\ dbPromise' = "pending"
          /\ storeCalls' = [storeCalls EXCEPT ![c].pc = "loading"]
     ELSE /\ storeCalls' = [storeCalls EXCEPT ![c].pc = "awaiting"]
          /\ UNCHANGED dbPromise
  /\ UNCHANGED <<dbInstance, instances, durable, saves>>

\* `await localforage.getItem(DB_NAME)` resolves with the snapshot saved by then
GetItemResolves(c) ==
  /\ storeCalls[c].pc = "loading"
  /\ storeCalls' = [storeCalls EXCEPT ![c] = [@ EXCEPT !.pc = "opening", !.loaded = durable]]
  /\ UNCHANGED <<dbInstance, dbPromise, instances, durable, saves>>

\* a save in flight: the snapshot handed to localforage.setItem and who waits for it
Save(c, init, data) == [call |-> c, init |-> init, data |-> data]

\* the rest of getDB(): `dbInstance = new SQL.Database(savedData)`, initTables, whose
\* last statement is saveDB() with no await, and `return dbInstance`
OpenDB(c) ==
  /\ store = "db"
  /\ storeCalls[c].pc = "opening"
  /\ instances' = Append(instances, storeCalls[c].loaded)
  /\ dbInstance' = Len(instances) + 1
  /\ saves' = saves \cup {Save(c, TRUE, storeCalls[c].loaded)}
  /\ storeCalls' = [storeCalls EXCEPT ![c] = [@ EXCEPT !.pc = "run", !.db = Len(instances) + 1]]
  /\ UNCHANGED <<dbPromise, durable>>

\* the rest of the opener of getDb(): the database is made, ensureSchema runs and
\* the promise resolves with it
OpenDb(c) ==
  /\ store = "localSqlite"
  /\ storeCalls[c].pc = "opening"
  /\ instances' = Append(instances, storeCalls[c].loaded)
  /\ dbInstance' = Len(instances) + 1
  /\ dbPromise' = "resolved"
  /\ storeCalls' = [storeCalls EXCEPT ![c] = [@ EXCEPT !.pc = "run", !.db = Len(instances) + 1]]
  /\ UNCHANGED <<durable, saves>>

\* `await getDb()` of a call that was not the opener
PromiseResolves(c) ==
  /\ storeCalls[c].pc = "awaiting"
  /\ dbPromise = "resolved"
  /\ storeCalls' = [storeCalls EXCEPT ![c] = [@ EXCEPT !.pc = "run", !.db = dbInstance]]
  /\ UNCHANGED <<dbInstance, dbPromise, instances, durable, saves>>

\* the database saveDB() exports is the one the module holds, the database
\* persistDb(db) exports is the one the operation ran on
Exported(c, dbs) == IF store = "db" THEN dbs[dbInstance] ELSE dbs[storeCalls[c].db]

\* the statements of the operation on the database it got, then saveDB() or
\* persistDb(db) up to its await: the export is taken and setItem is called
RunAndSave(c) ==
  /\ storeCalls[c].pc = "run"
  /\ LET written == [instances EXCEPT ![storeCalls[c].db] = @ \cup {c}] IN
       /\ instances' = written
       /\ saves' = saves \cup {Save(c, FALSE, Exported(c, written))}
  /\ storeCalls' = [storeCalls EXCEPT ![c].pc = "saving"]
  /\ UNCHANGED <<dbInstance, dbPromise, durable>>

\* one setItem completes, in whatever order: the snapshot under the key is replaced
\* and the operation that awaited it returns
SetItemResolves(s) ==
  /\ s \in saves
  /\ durable' = s.data
  /\ saves' = saves \ {s}
  /\ storeCalls' = IF s.init THEN storeCalls ELSE [storeCalls EXCEPT ![s.call].pc = "done"]
  /\ UNCHANGED <<dbInstance, dbPromise, instances>>

InitInstances ==
  /\ TurnInit
  /\ ReaderOff /\ ToolsOff /\ CallsOff /\ ViewOff /\ InstancesOff
  /\ store \in Stores
  /\ agents = <<>>
  /\ lastAgentId = 0
  /\ op = NoOp
  /\ writes = <<>>

NextInstances ==
  /\ \/ StoreCall
     \/ \E c \in DOMAIN storeCalls :
          \/ getDB(c)
          \/ getDb(c)
          \/ GetItemResolves(c)
          \/ OpenDB(c)
          \/ OpenDb(c)
          \/ PromiseResolves(c)
          \/ RunAndSave(c)
     \/ \E s \in saves : SetItemResolves(s)
  /\ UNCHANGED <<uiVars, storeVars, turnVars, envVars, readerVars, toolVars, callVars,
                 apiVars, viewVars>>

SpecInstances == InitInstances /\ [][NextInstances]_vars

\* the call has run its statements on the database it got
HasWritten(c) == storeCalls[c].pc \in {"saving", "done"}

\* C36: all store operations act on one shared database instance, also when calls
\* overlap while the database is being opened: one instance is ever made, every
\* call runs on the instance the module holds, and no call has written to an
\* instance the module holds no longer
C36_OneSharedInstance ==
  /\ Len(instances) <= 1
  /\ \A c \in DOMAIN storeCalls :
       /\ storeCalls[c].pc \in {"run", "saving", "done"} => storeCalls[c].db = dbInstance
       /\ HasWritten(c) => c \in instances[dbInstance]

\* every operation has returned and no save is in flight
Quiescent ==
  /\ storeCalls # <<>>
  /\ \A c \in DOMAIN storeCalls : storeCalls[c].pc = "done"
  /\ saves = {}

\* C37: whatever the interleaving of the writes and the order in which their saves
\* complete, once every operation has returned the snapshot under the storage key
\* equals the database in memory
C37_SnapshotEqualsMemory ==
  Quiescent => durable = instances[dbInstance]

(***************************************************************************)
(* The busy flag over whole turns.  Every await of sendMessage resolves in  *)
(* the end: the store answers, and the turn is one whose stream ends.       *)
(***************************************************************************)
\* a step of the sendMessage call i
SendStep(i) ==
  /\ i \in DOMAIN sends
  /\ \/ createThreadResolves(i)
     \/ addMessageResolves(i)
     \/ firstRequest(i)
     \/ turnEnds(i)

SpecSubmitFair == SpecSubmit /\ \A i \in 1..MaxSends : WF_vars(SendStep(i))

\* the request of the call i is in flight
Requesting(i) == i \in DOMAIN sends /\ sends[i].pc = "fetch"

\* the call i has run its finally block
Finished(i) == i \in DOMAIN sends /\ sends[i].pc = "done"

\* C39: isLoading is true from the first request of a turn until the turn is over,
\* and every turn whose stream ends gets there: its finally block has run,
\* isLoading is false and the guard of sendMessage lets a submission through
C39_BusyUntilTurnEnds ==
  /\ [](\A i \in 1..MaxSends : Requesting(i) => isLoading)
  /\ \A i \in 1..MaxSends :
       Requesting(i) ~> (Finished(i) /\ ~isLoading)

=============================================================================
